---- MODULE Spec2Model ----
(***************************************************************************)
(* Subscription & Billing Ledger of video-text-new.                        *)
(*                                                                         *)
(*   stores/subscription.js  createSubscriptionStore  (trial counter,      *)
(*                           paid-until, admin set, redeem codes)          *)
(*   stores/billing.js       createBillingStore, createUsageRecorder       *)
(*                           (pricing, usage totals, daily usage, the      *)
(*                           exactly-once charge bridge)                   *)
(*                                                                         *)
(* Strings that the code trims are sequences of one-character strings, so  *)
(* that trimming is computed; a tenant key is the trimmed sequence.        *)
(* Money is an integer number of 1/100000 yuan, so that the rounding to    *)
(* four decimals is computed.  Time is an integer clock (Date.now()).      *)
(***************************************************************************)
EXTENDS Integers, Sequences, FiniteSets, TLC

\* ------------------------------------------------------------------ bounds
MaxNow == 3            \* the clock runs from 1 to MaxNow
MaxUntil == 3          \* activatePlan is not called when the expiry would pass this
MaxRedeemCodes == 2    \* length of the redeem list
MaxTasks == 2          \* tasks submitted
MaxTiers == 3          \* tiers of a raw schedule given to the cost function
MaxPrev == 3           \* minutes already accrued on the day
MaxAdd == 3            \* minutes added by one usage event
MaxPersists == 3       \* persist calls that queue a write
MaxMinutes == 3        \* minutes recorded by direct recordUsage calls, all tenants together
MaxOrders == 2         \* orders created by checkout
MaxQueries == 2        \* query requests waiting for the external service at one time

\* --------------------------------------------------------- program constants
TrialLimit == 2        \* TRIAL_LIMIT, default "2"
MaxSafeInteger == 2147483647   \* Number.MAX_SAFE_INTEGER, held as the largest 32-bit integer

\* ------------------------------------------------------------ input values
NonString == <<"<null>">>      \* stands for any baseId that is not a string
RawBaseIds == { <<"a">>, <<" ", "b", " ">>, <<" ">>, NonString }
Tenants == { <<"a">>, <<"b">> }
NoTenant == <<>>

Durations == { -1, 0, 1, 2 }          \* durationMs handed to activatePlan / addRedeemCode
NoPaidAt == 0                         \* paidAt missing (falsy)
Codes == { "", "S1", "K1", "K3" }     \* plaintext redeem codes; "" is a missing code
NewCodes == { "", "S1", "K1" }        \* the codes addRedeemCode is called with
SeedAdminBaseId == <<"admin0">>       \* seedAdminBaseIds, a tenant of its own
SeedCode == "S1"                      \* a built-in code of seedRedeemCodeList
SeedDuration == 2                     \* the seed codes' 30 days, in clock units

PaidAts == { NoPaidAt, 2, MaxNow + 1 }  \* paidAt handed to activatePlan

Infinity == 2147483647                \* Number.POSITIVE_INFINITY
NaN == 0 - 2147483647                 \* a missing field or one that is not a number

MsPerMinute == 60000                  \* Math.ceil(durationMs / 60000)
DayLength == 2                        \* clock units in one UTC day (getDateKey)

StorePaths == { "", "store.json" }     \* SUBSCRIPTION_STORE_PATH
OneTenantIds == { <<"a">>, <<" ">>, NonString }   \* one tenant, and ids that name none
PlanIds == { "monthly", "weekly" }     \* planId of a checkout request ("weekly": no such plan)
QueryStatuses == { "done", "running", "failed" }   \* what the status call reports
OrderStatuses == { "paid", "failed" } \* status of a webhook or aggregator notification
NoTask == 0                           \* a missing (falsy) task id

SubmitDurations == { NaN, 60001 }     \* durationMs of a submit request (NaN: not given)
ObservedDurations == { 0, 120001 }    \* extractDurationMs of a completed task
OccurredAts == { <<>>, <<1>> }        \* occurredAt of recordUsage: not given, or a time of day 0
UsageQuantities ==                    \* nothing given, one field given, all given
  { [units |-> NaN, minutes |-> NaN, durationMs |-> NaN],
    [units |-> 3, minutes |-> NaN, durationMs |-> NaN],
    [units |-> NaN, minutes |-> 2, durationMs |-> NaN],
    [units |-> NaN, minutes |-> NaN, durationMs |-> 1],
    [units |-> 3, minutes |-> 2, durationMs |-> 1] }

QuantityCases ==                      \* quantities with zero, negative and infinite fields
  { [units |-> NaN, minutes |-> NaN, durationMs |-> NaN],
    [units |-> 3, minutes |-> 2, durationMs |-> 1],
    [units |-> 3, minutes |-> 0, durationMs |-> 60001],
    [units |-> 3, minutes |-> 0 - 1, durationMs |-> 0],
    [units |-> 2, minutes |-> Infinity, durationMs |-> NaN],
    [units |-> 0, minutes |-> NaN, durationMs |-> 0 - 5],
    [units |-> NaN, minutes |-> NaN, durationMs |-> 1] }

\* prices in 1/100000 yuan
DefaultFlat ==      \* config/constants.js: hourlyUnitPrice / 60, no tiers
  [planPriceById |-> <<>>, modelUnitPrice |-> 10833, modelUnitLabel |-> "minute",
   tieredPrices |-> <<>>]
DefaultTiered ==    \* the schedule of the test "applies tiered pricing per day"
  [planPriceById |-> <<>>, modelUnitPrice |-> 10000, modelUnitLabel |-> "minute",
   tieredPrices |-> << [upToMinutes |-> 2, upToHours |-> NaN, upTo |-> NaN, unitPrice |-> 20000,
                        unitPricePerMinute |-> NaN, unitPricePerHour |-> NaN],
                       [upToMinutes |-> 5, upToHours |-> NaN, upTo |-> NaN, unitPrice |-> 10000,
                        unitPricePerMinute |-> NaN, unitPricePerHour |-> NaN],
                       [upToMinutes |-> Infinity, upToHours |-> NaN, upTo |-> NaN, unitPrice |-> 5000,
                        unitPricePerMinute |-> NaN, unitPricePerHour |-> NaN] >>]
DefaultPricings == { DefaultFlat, DefaultTiered }
FallbackUnitPrices == { 7000 }        \* a flat price no tier of TierUnitPrices has
PricingInputs ==    \* nextPricing of setPricing
  { [planPriceById |-> <<>>, modelUnitPrice |-> 30000, modelUnitLabel |-> "call",
     tieredPrices |-> <<>>],
    [planPriceById |-> <<>>, modelUnitPrice |-> NaN, modelUnitLabel |-> "",
     tieredPrices |-> << << [upToMinutes |-> 3, upToHours |-> NaN, upTo |-> NaN, unitPrice |-> 10000,
                             unitPricePerMinute |-> NaN, unitPricePerHour |-> NaN],
                            [upToMinutes |-> 1, upToHours |-> NaN, upTo |-> NaN, unitPrice |-> 20000,
                             unitPricePerMinute |-> NaN, unitPricePerHour |-> NaN] >> >>] }

FlatPricing ==      \* a body that sets a flat price and a label
  [planPriceById |-> <<>>, modelUnitPrice |-> 30000, modelUnitLabel |-> "call",
   tieredPrices |-> <<>>]
RefundPricing ==    \* a body the pricing endpoint accepts: a finite unit price below zero
  [planPriceById |-> <<>>, modelUnitPrice |-> 0 - 10000, modelUnitLabel |-> "",
   tieredPrices |-> <<>>]

Null == <<>>                          \* a returned null
Some(v) == <<v>>                      \* a returned value

Max(a, b) == IF a >= b THEN a ELSE b
Min(a, b) == IF a <= b THEN a ELSE b

\* ---------------------------------------------------------------- helpers
RECURSIVE TrimStart(_)
TrimStart(s) == IF s # <<>> /\ Head(s) = " " THEN TrimStart(Tail(s)) ELSE s

RECURSIVE TrimEnd(_)
TrimEnd(s) == IF s # <<>> /\ s[Len(s)] = " " THEN TrimEnd(SubSeq(s, 1, Len(s) - 1)) ELSE s

normalizeBaseId(value) == IF value = NonString THEN NoTenant ELSE TrimEnd(TrimStart(value))

hashCode(code) == <<"sha256", code>>

VARIABLES
  now,            \* Date.now()
  allowBypass,    \* createSubscriptionStore({allowBypass})
  paidBaseIds,    \* createSubscriptionStore({paidBaseIds})
  usage,          \* trial uses consumed, per tenant (absent = 0)
  paidUntilMap,   \* tenant -> expiry, a function on the tenants that have one
  adminSet,
  redeemList,     \* sequence of [codeHash, durationMs, usedAt, usedBy]
  redeemCount,    \* history: how many times redeem returned ok, per plaintext code
  defaultPricing, \* createBillingStore({defaultPricing})
  pricingMap,     \* tenant -> normalized pricing, on the tenants that have an override
  usageMap,       \* tenant -> [count, minutes, cost]
  dailyUsageMap,  \* tenant -> date -> [minutes, cost]
  billingTasks,   \* task id -> [baseId, charged, durationMs]
  nextTaskId,     \* the task ids handed out so far (crypto.randomUUID() never repeats)
  billingOrders,  \* orders in checkout order: [baseId, planId, status, paidUntil]
  queries,        \* queryTask handlers suspended on the status call: [taskId, cached]
  recorded,       \* history: recordUsage calls made for each task id
  last,           \* the last call and what it returned
  storePath,      \* SUBSCRIPTION_STORE_PATH, "" when not configured
  cache,          \* createWriteStore: the snapshot the store merges into
  pendingWrite,   \* the promise chain: the writes queued and not started, oldest first
  inFlight,       \* the writeFile calls in progress
  file,           \* the snapshot file: Null when absent or unreadable, else its content
  persistCalls,   \* history: persist calls that queued a write
  started,        \* history: writes started
  failed          \* history: writes that failed

cfgVars == <<allowBypass, paidBaseIds, defaultPricing, storePath>>
storeVars == <<cache, pendingWrite, inFlight, file, persistCalls, started, failed>>
subVars == <<usage, paidUntilMap, adminSet, redeemList, redeemCount>>
billVars == <<pricingMap, usageMap, dailyUsageMap, billingTasks, nextTaskId, recorded, billingOrders,
             queries>>
vars == <<now, allowBypass, paidBaseIds, defaultPricing, usage, paidUntilMap, adminSet, redeemList,
          redeemCount, pricingMap, usageMap, dailyUsageMap, billingTasks, nextTaskId, recorded,
          billingOrders, queries, last,
          storePath, cache, pendingWrite, inFlight, file, persistCalls, started, failed>>

\* ------------------------------------------------------ subscription store
getPaidUntil(baseId) ==
  \* paidUntilMap holds String(until); parseInt(_, 10) gives the integer back
  IF baseId \in DOMAIN paidUntilMap THEN paidUntilMap[baseId] ELSE 0

isPaid_NeverExpires(baseId) ==
  IF baseId \in adminSet THEN [paid |-> TRUE, paidUntil |-> MaxSafeInteger, admin |-> TRUE]
  ELSE IF baseId \in paidBaseIds THEN [paid |-> TRUE, paidUntil |-> MaxSafeInteger, admin |-> FALSE]
  ELSE LET until == getPaidUntil(baseId) IN
       IF until = 0 THEN [paid |-> FALSE, paidUntil |-> 0, admin |-> FALSE]
       ELSE [paid |-> TRUE, paidUntil |-> until, admin |-> FALSE]

isPaid_StrictExpiry(baseId) ==
  IF baseId \in adminSet THEN [paid |-> TRUE, paidUntil |-> MaxSafeInteger, admin |-> TRUE]
  ELSE IF baseId \in paidBaseIds THEN [paid |-> TRUE, paidUntil |-> MaxSafeInteger, admin |-> FALSE]
  ELSE LET until == getPaidUntil(baseId) IN
       IF until = 0 THEN [paid |-> FALSE, paidUntil |-> 0, admin |-> FALSE]
       ELSE IF now < until THEN [paid |-> TRUE, paidUntil |-> until, admin |-> FALSE]
       ELSE [paid |-> FALSE, paidUntil |-> until, admin |-> FALSE]

isPaid(baseId) ==
  IF baseId \in adminSet THEN [paid |-> TRUE, paidUntil |-> MaxSafeInteger, admin |-> TRUE]
  ELSE IF baseId \in paidBaseIds THEN [paid |-> TRUE, paidUntil |-> MaxSafeInteger, admin |-> FALSE]
  ELSE LET until == getPaidUntil(baseId) IN
       IF until = 0 THEN [paid |-> FALSE, paidUntil |-> 0, admin |-> FALSE]
       ELSE IF now <= until THEN [paid |-> TRUE, paidUntil |-> until, admin |-> FALSE]
       ELSE [paid |-> FALSE, paidUntil |-> until, admin |-> FALSE]

getFreeRemaining(used) == Max(0, TrialLimit - used)

\* consume's test before it takes a trial use: if (freeRemaining <= 0)
trialExhausted_Strict(freeRemaining) == freeRemaining < 0
trialExhausted(freeRemaining) == freeRemaining <= 0

MissingStatus(baseId) ==
  [baseId |-> baseId, isPaid |-> FALSE, freeRemaining |-> 0, allowed |-> FALSE,
   message |-> "missing baseId"]

BypassStatus(baseId) ==
  [baseId |-> baseId, isPaid |-> TRUE, freeRemaining |-> TrialLimit, allowed |-> TRUE,
   message |-> "bypass", paidUntil |-> MaxSafeInteger]

PaidStatus_Unlimited(baseId, paidInfo) ==
  [baseId |-> baseId, isPaid |-> TRUE, freeRemaining |-> MaxSafeInteger, allowed |-> TRUE,
   message |-> IF paidInfo.admin THEN "admin" ELSE "paid", paidUntil |-> paidInfo.paidUntil]

PaidStatus(baseId, paidInfo) ==
  [baseId |-> baseId, isPaid |-> TRUE, freeRemaining |-> TrialLimit, allowed |-> TRUE,
   message |-> IF paidInfo.admin THEN "admin" ELSE "paid", paidUntil |-> paidInfo.paidUntil]

TrialStatus(baseId, freeRemaining, allowed, paidInfo) ==
  [baseId |-> baseId, isPaid |-> FALSE, freeRemaining |-> freeRemaining, allowed |-> allowed,
   message |-> IF freeRemaining > 0 THEN "trial left" ELSE "trial used up",
   paidUntil |-> paidInfo.paidUntil]

getStatus(rawBaseId) ==
  LET baseId == normalizeBaseId(rawBaseId) IN
  IF baseId = NoTenant THEN MissingStatus(baseId)
  ELSE IF allowBypass THEN BypassStatus(baseId)
  ELSE LET paidInfo == isPaid(baseId) IN
       IF paidInfo.paid THEN PaidStatus(baseId, paidInfo)
       ELSE LET freeRemaining == getFreeRemaining(usage[baseId]) IN
            TrialStatus(baseId, freeRemaining, freeRemaining > 0, paidInfo)

\* consume: the status returned and the trial counters it leaves
consume_CountsEveryCall(rawBaseId) ==
  LET baseId == normalizeBaseId(rawBaseId)
      counted == IF usage[baseId] < TrialLimit THEN [usage EXCEPT ![baseId] = @ + 1] ELSE usage
  IN
  IF baseId = NoTenant THEN [status |-> MissingStatus(baseId), usage |-> usage]
  ELSE IF allowBypass THEN [status |-> BypassStatus(baseId), usage |-> counted]
  ELSE LET paidInfo == isPaid(baseId) IN
       IF paidInfo.paid THEN [status |-> PaidStatus(baseId, paidInfo), usage |-> counted]
       ELSE IF trialExhausted(getFreeRemaining(usage[baseId]))
            THEN [status |-> TrialStatus(baseId, 0, FALSE, paidInfo), usage |-> usage]
            ELSE [status |-> TrialStatus(baseId, getFreeRemaining(counted[baseId]), TRUE, paidInfo),
                  usage |-> counted]

consume(rawBaseId) ==
  LET baseId == normalizeBaseId(rawBaseId) IN
  IF baseId = NoTenant THEN [status |-> MissingStatus(baseId), usage |-> usage]
  ELSE IF allowBypass THEN [status |-> BypassStatus(baseId), usage |-> usage]
  ELSE LET paidInfo == isPaid(baseId) IN
       IF paidInfo.paid THEN [status |-> PaidStatus(baseId, paidInfo), usage |-> usage]
       ELSE IF trialExhausted(getFreeRemaining(usage[baseId]))
            THEN [status |-> TrialStatus(baseId, 0, FALSE, paidInfo), usage |-> usage]
            ELSE LET next == [usage EXCEPT ![baseId] = @ + 1] IN
                 [status |-> TrialStatus(baseId, getFreeRemaining(next[baseId]), TRUE, paidInfo),
                  usage |-> next]

\* a getStatus call: the status it returns and the trial counters it leaves
getStatusCall_Consumes(rawBaseId) == consume(rawBaseId)
getStatusCall(rawBaseId) == [status |-> getStatus(rawBaseId), usage |-> usage]

\* setPaidUntil: paidUntilMap.set(baseId, String(until)), then onPersist
setPaidUntil(map, baseId, until) ==
  [b \in DOMAIN map \cup {baseId} |-> IF b = baseId THEN until ELSE map[b]]

\* activatePlan: what it returns, the map it leaves and the onPersist calls it makes
activatePlan(rawBaseId, durationMs, paidAt) ==
  LET normalized == normalizeBaseId(rawBaseId) IN
  IF normalized = NoTenant \/ durationMs = 0
  THEN [result |-> Null, paidUntilMap |-> paidUntilMap, persists |-> 0]
  ELSE LET start == Max(Max(now, IF paidAt # NoPaidAt THEN paidAt ELSE now),
                        getPaidUntil(normalized))
           nextUntil == start + durationMs
       IN  [result |-> Some(nextUntil),
            paidUntilMap |-> setPaidUntil(paidUntilMap, normalized, nextUntil),
            persists |-> 1]

\* setAdmin: what it returns and the admin set it leaves
setAdmin_AddOnly(rawBaseId, enabled) ==
  LET normalized == normalizeBaseId(rawBaseId) IN
  IF normalized = NoTenant THEN [result |-> FALSE, adminSet |-> adminSet, persists |-> 0]
  ELSE [result |-> TRUE,
        adminSet |-> IF enabled THEN adminSet \cup {normalized} ELSE adminSet,
        persists |-> 1]

setAdmin_Unchecked(rawBaseId, enabled) ==
  LET normalized == normalizeBaseId(rawBaseId) IN
  [result |-> TRUE,
   adminSet |-> IF enabled THEN adminSet \cup {normalized} ELSE adminSet \ {normalized},
   persists |-> 1]

setAdmin(rawBaseId, enabled) ==
  LET normalized == normalizeBaseId(rawBaseId) IN
  IF normalized = NoTenant THEN [result |-> FALSE, adminSet |-> adminSet, persists |-> 0]
  ELSE [result |-> TRUE,
        adminSet |-> IF enabled THEN adminSet \cup {normalized} ELSE adminSet \ {normalized},
        persists |-> 1]

\* addRedeemCode: rejected when the code or the duration is falsy
addRedeemCode(code, durationMs) ==
  IF code = "" \/ durationMs = 0
  THEN [result |-> FALSE, redeemList |-> redeemList, persists |-> 0]
  ELSE [result |-> TRUE,
        redeemList |-> Append(redeemList, [codeHash |-> hashCode(code), durationMs |-> durationMs,
                                           usedAt |-> 0, usedBy |-> NoTenant]),
        persists |-> 1]

\* redeemList.find((x) => x.codeHash === codeHash): the first index, 0 if none
findCode_Last(list, codeHash) ==
  LET hits == { i \in 1..Len(list) : list[i].codeHash = codeHash } IN
  IF hits = {} THEN 0 ELSE CHOOSE i \in hits : \A j \in hits : i >= j

findCode(list, codeHash) ==
  LET hits == { i \in 1..Len(list) : list[i].codeHash = codeHash } IN
  IF hits = {} THEN 0 ELSE CHOOSE i \in hits : \A j \in hits : i <= j

\* item.usedAt = Date.now(); item.usedBy = normalized
markUsed_NoTenant(list, i, baseId) == [list EXCEPT ![i].usedAt = now]
markUsed(list, i, baseId) == [list EXCEPT ![i].usedAt = now, ![i].usedBy = baseId]

redeem(rawBaseId, code) ==
  LET normalized == normalizeBaseId(rawBaseId)
      unchanged(message) == [ok |-> FALSE, message |-> message, paidUntilMap |-> paidUntilMap,
                             redeemList |-> redeemList, persists |-> 0]
  IN
  IF normalized = NoTenant \/ code = "" THEN unchanged("missing baseId or code")
  ELSE LET i == findCode(redeemList, hashCode(code)) IN
       IF i = 0 THEN unchanged("invalid code")
       ELSE IF redeemList[i].usedAt # 0 /\ redeemList[i].usedBy # NoTenant
            THEN unchanged("already used")
            ELSE LET plan == activatePlan(normalized, redeemList[i].durationMs, now) IN
                 [ok |-> TRUE, paidUntil |-> plan.result,
                  paidUntilMap |-> plan.paidUntilMap,
                  redeemList |-> markUsed(redeemList, i, normalized),
                  persists |-> plan.persists + 1]

\* ----------------------------------------------------------- billing store
isFinite(x) == x # Infinity /\ x # NaN

\* one item of a raw tieredPrices list, with the fields normalizeTieredPrices reads
TierItem(upToMinutes, unitPrice) ==
  [upToMinutes |-> upToMinutes, upToHours |-> NaN, upTo |-> NaN,
   unitPrice |-> unitPrice, unitPricePerMinute |-> NaN, unitPricePerHour |-> NaN]

normalizeTier(item, fallbackPrice) ==
  [upToMinutes |-> IF isFinite(item.upToMinutes) THEN item.upToMinutes
                   ELSE IF isFinite(item.upToHours) THEN item.upToHours * 60
                   ELSE IF isFinite(item.upTo) THEN item.upTo
                   ELSE Infinity,
   unitPrice |-> IF isFinite(item.unitPrice) THEN item.unitPrice
                 ELSE IF isFinite(item.unitPricePerMinute) THEN item.unitPricePerMinute
                 ELSE IF isFinite(item.unitPricePerHour) THEN item.unitPricePerHour \div 60
                 ELSE fallbackPrice]

\* the comparator of normalized.sort: negative, zero or positive
compareTiers(a, b) ==
  IF a.upToMinutes = b.upToMinutes THEN 0
  ELSE IF a.upToMinutes = Infinity THEN 1
  ELSE IF b.upToMinutes = Infinity THEN -1
  ELSE a.upToMinutes - b.upToMinutes

\* Array.prototype.sort is stable: an item goes after every item that is not greater
RECURSIVE insertTier(_, _)
insertTier(sorted, x) ==
  IF sorted = <<>> THEN <<x>>
  ELSE IF compareTiers(Head(sorted), x) <= 0 THEN <<Head(sorted)>> \o insertTier(Tail(sorted), x)
  ELSE <<x>> \o sorted

RECURSIVE sortTiers(_)
sortTiers(list) ==
  IF list = <<>> THEN <<>> ELSE insertTier(sortTiers(SubSeq(list, 1, Len(list) - 1)), list[Len(list)])

RECURSIVE keepValidTiers(_, _)
keepValidTiers(list, fallbackPrice) ==
  IF list = <<>> THEN <<>>
  ELSE LET tier == normalizeTier(Head(list), fallbackPrice)
           rest == keepValidTiers(Tail(list), fallbackPrice)
       IN  IF ~isFinite(tier.unitPrice) \/ tier.unitPrice < 0 THEN rest ELSE <<tier>> \o rest

normalizeTieredPrices(tieredPrices, fallbackPrice) ==
  sortTiers(keepValidTiers(tieredPrices, fallbackPrice))

\* Math.max(0, limit - cursor) for a finite limit, else all that remains
tierAvailable_IgnoresCursor(limit, cursor, remaining) ==
  IF isFinite(limit) THEN Max(0, limit) ELSE remaining

tierAvailable(limit, cursor, remaining) ==
  IF isFinite(limit) THEN Max(0, limit - cursor) ELSE remaining

\* the for loop of calculateTieredCost from tier i on
RECURSIVE tierLoop(_, _, _, _, _)
tierLoop(tieredPrices, i, remaining, cost, cursor) ==
  IF i > Len(tieredPrices) \/ remaining <= 0 THEN [remaining |-> remaining, cost |-> cost]
  ELSE LET available == tierAvailable(tieredPrices[i].upToMinutes, cursor, remaining) IN
       IF available <= 0 THEN tierLoop(tieredPrices, i + 1, remaining, cost, cursor)
       ELSE LET used == Min(remaining, available) IN
            tierLoop(tieredPrices, i + 1, remaining - used,
                     cost + used * tieredPrices[i].unitPrice, cursor + used)

calculateTieredCost(tieredPrices, prevMinutes, addMinutes, fallbackUnitPrice) ==
  IF Len(tieredPrices) = 0 THEN addMinutes * fallbackUnitPrice
  ELSE LET r == tierLoop(tieredPrices, 1, addMinutes, 0, prevMinutes) IN
       IF r.remaining > 0 THEN r.cost + r.remaining * fallbackUnitPrice ELSE r.cost

\* Number(x.toFixed(4)): money is in 1/100000, so four decimals are multiples of 10
toFixed4(x) == IF x >= 0 THEN ((x + 5) \div 10) * 10 ELSE 0 - (((0 - x) + 5) \div 10) * 10

getDateKey(timestamp) == timestamp \div DayLength

\* a stored (normalized) pricing as normalizePricing reads it back
asRawPricing(stored) ==
  [planPriceById |-> stored.planPriceById, modelUnitPrice |-> stored.modelUnitPrice,
   modelUnitLabel |-> stored.modelUnitLabel,
   tieredPrices |-> Some([k \in 1..Len(stored.tieredPrices) |->
                            TierItem(stored.tieredPrices[k].upToMinutes,
                                     stored.tieredPrices[k].unitPrice)])]

\* normalizePricing({})
EmptyPricing == [planPriceById |-> <<>>, modelUnitPrice |-> NaN, modelUnitLabel |-> "",
                 tieredPrices |-> Null]

normalizePricing(pricing) ==
  LET fallbackUnitPrice == IF isFinite(pricing.modelUnitPrice) THEN pricing.modelUnitPrice
                           ELSE defaultPricing.modelUnitPrice
  IN  [planPriceById |-> pricing.planPriceById,
       modelUnitPrice |-> fallbackUnitPrice,
       modelUnitLabel |-> IF pricing.modelUnitLabel # "" THEN pricing.modelUnitLabel
                          ELSE defaultPricing.modelUnitLabel,
       tieredPrices |-> normalizeTieredPrices(
                          IF pricing.tieredPrices # Null THEN pricing.tieredPrices[1]
                          ELSE defaultPricing.tieredPrices,
                          fallbackUnitPrice)]

getPricing_IgnoresOverride(baseId) == normalizePricing(EmptyPricing)

getPricing(baseId) ==
  IF baseId = NoTenant THEN normalizePricing(EmptyPricing)
  ELSE normalizePricing(IF baseId \in DOMAIN pricingMap THEN asRawPricing(pricingMap[baseId])
                        ELSE EmptyPricing)

mapSet_Everyone(map, key, value) == [k \in DOMAIN map \cup {key} |-> value]

mapSet(map, key, value) == [k \in DOMAIN map \cup {key} |-> IF k = key THEN value ELSE map[k]]

setPricing_NoPersist(rawBaseId, nextPricing) ==
  LET normalized == normalizeBaseId(rawBaseId) IN
  IF normalized = NoTenant THEN [result |-> FALSE, pricingMap |-> pricingMap, persists |-> 0]
  ELSE [result |-> TRUE,
        pricingMap |-> mapSet(pricingMap, normalized, normalizePricing(nextPricing)),
        persists |-> 0]

setPricing(rawBaseId, nextPricing) ==
  LET normalized == normalizeBaseId(rawBaseId) IN
  IF normalized = NoTenant THEN [result |-> FALSE, pricingMap |-> pricingMap, persists |-> 0]
  ELSE [result |-> TRUE,
        pricingMap |-> mapSet(pricingMap, normalized, normalizePricing(nextPricing)),
        persists |-> 1]

getUsage(rawBaseId) ==
  LET normalized == normalizeBaseId(rawBaseId) IN
  IF normalized = NoTenant \/ normalized \notin DOMAIN usageMap THEN [count |-> 0, minutes |-> 0, cost |-> 0]
  ELSE [count |-> usageMap[normalized].count, minutes |-> usageMap[normalized].count,
        cost |-> usageMap[normalized].cost]

getDailyUsage_Cumulative(rawBaseId, dateKey) ==
  LET normalized == normalizeBaseId(rawBaseId) IN
  IF normalized = NoTenant \/ normalized \notin DOMAIN usageMap
  THEN [date |-> dateKey, minutes |-> 0, cost |-> 0]
  ELSE [date |-> dateKey, minutes |-> usageMap[normalized].count,
        cost |-> usageMap[normalized].cost]

getDailyUsage(rawBaseId, dateKey) ==
  LET normalized == normalizeBaseId(rawBaseId) IN
  IF \/ normalized = NoTenant
     \/ normalized \notin DOMAIN dailyUsageMap
     \/ dateKey \notin DOMAIN dailyUsageMap[normalized]
  THEN [date |-> dateKey, minutes |-> 0, cost |-> 0]
  ELSE [date |-> dateKey, minutes |-> dailyUsageMap[normalized][dateKey].minutes,
        cost |-> dailyUsageMap[normalized][dateKey].cost]

resolveCurrentTierUnitPrice(tieredPrices, totalMinutes, fallbackUnitPrice) ==
  IF Len(tieredPrices) = 0 THEN fallbackUnitPrice
  ELSE LET hits == { k \in 1..Len(tieredPrices) : totalMinutes <= tieredPrices[k].upToMinutes } IN
       IF hits # {} THEN tieredPrices[CHOOSE k \in hits : \A j \in hits : k <= j].unitPrice
       ELSE IF tieredPrices[Len(tieredPrices)].unitPrice # 0
            THEN tieredPrices[Len(tieredPrices)].unitPrice
            ELSE fallbackUnitPrice

\* the quantity billed: minutes, else the duration in whole minutes, else units, else 1
resolveMinutes_UnitsFirst(units, minutes, durationMs) ==
  IF isFinite(units) /\ units > 0 THEN units
  ELSE IF isFinite(minutes) /\ minutes > 0 THEN minutes
  ELSE IF isFinite(durationMs) /\ durationMs > 0
       THEN Max(1, (durationMs + MsPerMinute - 1) \div MsPerMinute)
  ELSE 1

resolveMinutes(units, minutes, durationMs) ==
  IF isFinite(minutes) /\ minutes > 0 THEN minutes
  ELSE IF isFinite(durationMs) /\ durationMs > 0
       THEN Max(1, (durationMs + MsPerMinute - 1) \div MsPerMinute)
  ELSE IF isFinite(units) /\ units > 0 THEN units
  ELSE 1

\* nextCount = prev.count + resolvedMinutes
nextUsageCount_Calls(prevCount, resolvedMinutes) == prevCount + 1
nextUsageCount(prevCount, resolvedMinutes) == prevCount + resolvedMinutes

\* recordUsage: what it returns, the ledgers it leaves and the onPersist calls it makes
recordUsage(rawBaseId, units, minutes, durationMs, occurredAt) ==
  LET normalized == normalizeBaseId(rawBaseId) IN
  IF normalized = NoTenant
  THEN [result |-> [count |-> 0, cost |-> 0], usageMap |-> usageMap,
        dailyUsageMap |-> dailyUsageMap, persists |-> 0]
  ELSE LET pricing == getPricing(normalized)
           prev == getUsage(normalized)
           resolvedMinutes == resolveMinutes(units, minutes, durationMs)
           dateKey == getDateKey(IF occurredAt # Null THEN occurredAt[1] ELSE now)
           dailyPrev == getDailyUsage(normalized, dateKey)
           dailyCostDelta == calculateTieredCost(pricing.tieredPrices, dailyPrev.minutes,
                                                 resolvedMinutes, pricing.modelUnitPrice)
           nextDailyMinutes == dailyPrev.minutes + resolvedMinutes
           nextDailyCost == toFixed4(dailyPrev.cost + dailyCostDelta)
           dailyByDate == IF normalized \in DOMAIN dailyUsageMap THEN dailyUsageMap[normalized]
                          ELSE << >>
           nextCount == nextUsageCount(prev.count, resolvedMinutes)
           nextCost == toFixed4(prev.cost + dailyCostDelta)
       IN  [result |-> [count |-> nextCount, minutes |-> nextCount, cost |-> nextCost,
                        dailyMinutes |-> nextDailyMinutes, dailyCost |-> nextDailyCost,
                        unitPrice |-> resolveCurrentTierUnitPrice(pricing.tieredPrices,
                                        nextDailyMinutes, pricing.modelUnitPrice),
                        unitLabel |-> pricing.modelUnitLabel],
            usageMap |-> mapSet(usageMap, normalized,
                                [count |-> nextCount, minutes |-> nextCount, cost |-> nextCost]),
            dailyUsageMap |-> mapSet(dailyUsageMap, normalized,
                                mapSet(dailyByDate, dateKey,
                                       [minutes |-> nextDailyMinutes, cost |-> nextDailyCost])),
            persists |-> 1]

\* ------------------------------------------------------ usage charge bridge
\* billingTasks.delete(taskId)
removeTask_Keep(tasks, taskId) == tasks
removeTask(tasks, taskId) == [k \in DOMAIN tasks \ {taskId} |-> tasks[k]]

\* createUsageRecorder, once the task is known: remove the entry, then bill
chargeKnown_ObservedFirst(taskId, durationMs) ==
  LET cached == billingTasks[taskId]
      normalized == normalizeBaseId(cached.baseId)
      resolvedDurationMs == IF isFinite(durationMs) /\ durationMs > 0 THEN durationMs
                            ELSE IF isFinite(cached.durationMs) /\ cached.durationMs > 0
                            THEN cached.durationMs
                            ELSE NaN
      removed == removeTask(billingTasks, taskId)
  IN  IF normalized = NoTenant
      THEN [result |-> Null, billed |-> FALSE, billingTasks |-> removed, usageMap |-> usageMap,
            dailyUsageMap |-> dailyUsageMap, persists |-> 0]
      ELSE LET r == recordUsage(normalized, 1, NaN, resolvedDurationMs, Null) IN
           [result |-> Some(r.result), billed |-> TRUE, billingTasks |-> removed,
            usageMap |-> r.usageMap, dailyUsageMap |-> r.dailyUsageMap, persists |-> r.persists]

chargeKnown(taskId, durationMs) ==
  LET cached == billingTasks[taskId]
      normalized == normalizeBaseId(cached.baseId)
      resolvedDurationMs == IF isFinite(cached.durationMs) /\ cached.durationMs > 0
                            THEN cached.durationMs
                            ELSE IF isFinite(durationMs) /\ durationMs > 0 THEN durationMs
                            ELSE NaN
      removed == removeTask(billingTasks, taskId)
  IN  IF normalized = NoTenant
      THEN [result |-> Null, billed |-> FALSE, billingTasks |-> removed, usageMap |-> usageMap,
            dailyUsageMap |-> dailyUsageMap, persists |-> 0]
      ELSE LET r == recordUsage(normalized, 1, NaN, resolvedDurationMs, Null) IN
           [result |-> Some(r.result), billed |-> TRUE, billingTasks |-> removed,
            usageMap |-> r.usageMap, dailyUsageMap |-> r.dailyUsageMap, persists |-> r.persists]

\* what the recorder does for a task it has no entry for
chargeUnknown(result) ==
  [result |-> result, billed |-> FALSE, billingTasks |-> billingTasks, usageMap |-> usageMap,
   dailyUsageMap |-> dailyUsageMap, persists |-> 0]

chargeOnce_ZeroTotals(taskId, durationMs) ==
  IF taskId = NoTask \/ taskId \notin DOMAIN billingTasks \/ billingTasks[taskId].charged
  THEN chargeUnknown(Some(recordUsage(NonString, 1, NaN, durationMs, Null).result))
  ELSE chargeKnown(taskId, durationMs)

chargeOnce(taskId, durationMs) ==
  IF taskId = NoTask THEN chargeUnknown(Null)
  ELSE IF taskId \in DOMAIN billingTasks /\ billingTasks[taskId].charged THEN chargeUnknown(Null)
  ELSE IF taskId \notin DOMAIN billingTasks THEN chargeUnknown(Null)
  ELSE chargeKnown(taskId, durationMs)

\* recordUsageOnce({taskId, durationMs}) as a queryTask handler calls it when it
\* resumes: the recorder reads the task map then, not when the request came in
recordUsageOnce_StaleEntry(query, durationMs) ==
  IF query.cached = Null THEN chargeUnknown(Null)
  ELSE LET r == recordUsage(query.cached[1].baseId, 1, NaN,
                            IF isFinite(query.cached[1].durationMs) THEN query.cached[1].durationMs
                            ELSE durationMs, Null)
       IN  [result |-> Some(r.result), billed |-> TRUE,
            billingTasks |-> removeTask(billingTasks, query.taskId),
            usageMap |-> r.usageMap, dailyUsageMap |-> r.dailyUsageMap, persists |-> r.persists]

recordUsageOnce(query, durationMs) == chargeOnce(query.taskId, durationMs)

\* ------------------------------------------------------- persistence sink
\* JSON.stringify writes a number that is not finite as null
jsonNumber(x) == IF isFinite(x) THEN Some(x) ELSE Null

jsonTier(tier) ==
  [upToMinutes |-> jsonNumber(tier.upToMinutes), unitPrice |-> jsonNumber(tier.unitPrice)]

jsonPricing(pricing) ==
  [planPriceById |-> pricing.planPriceById,
   modelUnitPrice |-> jsonNumber(pricing.modelUnitPrice),
   modelUnitLabel |-> pricing.modelUnitLabel,
   tieredPrices |-> [k \in 1..Len(pricing.tieredPrices) |-> jsonTier(pricing.tieredPrices[k])]]

\* JSON.stringify(cache, null, 2): the other fields hold strings and finite numbers
jsonStringify(snapshot) ==
  [snapshot EXCEPT !.pricingByBaseId =
     [t \in DOMAIN snapshot.pricingByBaseId |-> jsonPricing(snapshot.pricingByBaseId[t])]]

\* readStore when there is no file
EmptySnapshot ==
  [paidUntilByBaseId |-> << >>, adminBaseIdList |-> {}, redeemCodes |-> << >>,
   pricingByBaseId |-> << >>, usageByBaseId |-> << >>, dailyUsageByBaseId |-> << >>]

\* what the subscription store hands to onPersist
subscriptionData(paidUntil, admins, codes) ==
  [paidUntilByBaseId |-> Some(paidUntil), adminBaseIdList |-> Some(admins),
   redeemCodes |-> Some(codes), pricingByBaseId |-> Null, usageByBaseId |-> Null,
   dailyUsageByBaseId |-> Null]

\* what the billing store hands to onPersist
billingData(pricing, totals, daily) ==
  [paidUntilByBaseId |-> Null, adminBaseIdList |-> Null, redeemCodes |-> Null,
   pricingByBaseId |-> Some(pricing), usageByBaseId |-> Some(totals),
   dailyUsageByBaseId |-> Some(daily)]

\* data.x ?? cache.x ?? empty; readStore gives the cache every field, so the last
\* alternative is never taken
mergeField_Replace(given, cached, empty) == IF given # Null THEN given[1] ELSE empty
mergeField(given, cached, empty) == IF given # Null THEN given[1] ELSE cached

mergeSnapshot(snapshot, data) ==
  [paidUntilByBaseId |-> mergeField(data.paidUntilByBaseId, snapshot.paidUntilByBaseId, << >>),
   adminBaseIdList |-> mergeField(data.adminBaseIdList, snapshot.adminBaseIdList, {}),
   redeemCodes |-> mergeField(data.redeemCodes, snapshot.redeemCodes, << >>),
   pricingByBaseId |-> mergeField(data.pricingByBaseId, snapshot.pricingByBaseId, << >>),
   usageByBaseId |-> mergeField(data.usageByBaseId, snapshot.usageByBaseId, << >>),
   dailyUsageByBaseId |-> mergeField(data.dailyUsageByBaseId, snapshot.dailyUsageByBaseId, << >>)]

\* JSON.parse of a number written by JSON.stringify; the null written for a number
\* that was not finite reads as 0 where Number() is applied to it
parseNumber(json) == IF json = Null THEN 0 ELSE json[1]

parseTier(tier) ==
  [upToMinutes |-> parseNumber(tier.upToMinutes), unitPrice |-> parseNumber(tier.unitPrice)]

parsePricing(pricing) ==
  [planPriceById |-> pricing.planPriceById,
   modelUnitPrice |-> parseNumber(pricing.modelUnitPrice),
   modelUnitLabel |-> pricing.modelUnitLabel,
   tieredPrices |-> [k \in 1..Len(pricing.tieredPrices) |-> parseTier(pricing.tieredPrices[k])]]

\* readStore: the empty snapshot when the file is absent or unreadable
readStore(content) ==
  IF content = Null THEN EmptySnapshot
  ELSE [content[1] EXCEPT !.pricingByBaseId =
          [t \in DOMAIN content[1].pricingByBaseId |-> parsePricing(content[1].pricingByBaseId[t])]]

\* map.set(item.codeHash, ...): a new key goes last, a known key keeps its place
redeemMapSet(list, item) ==
  IF \E i \in 1..Len(list) : list[i].codeHash = item.codeHash
  THEN [i \in 1..Len(list) |-> IF list[i].codeHash = item.codeHash THEN item ELSE list[i]]
  ELSE Append(list, item)

RECURSIVE redeemMapSetAll(_, _)
redeemMapSetAll(list, items) ==
  IF items = <<>> THEN list ELSE redeemMapSetAll(redeemMapSet(list, Head(items)), Tail(items))

mergeRedeemCodes(baseList, extraList) == redeemMapSetAll(<<>>, baseList \o extraList)

\* the built-in codes as initStores builds them: unused
seedRedeemCodes ==
  << [codeHash |-> hashCode(SeedCode), durationMs |-> SeedDuration,
      usedAt |-> 0, usedBy |-> NoTenant] >>

\* the function createWriteStore returns, on the store [cache, pendingWrite, persistCalls]
persist_PartialPayload(store, data) ==
  IF storePath = "" THEN store
  ELSE [cache |-> mergeSnapshot(store.cache, data),
        pendingWrite |-> Append(store.pendingWrite,
                                [n |-> store.persistCalls + 1,
                                 payload |-> jsonStringify(mergeSnapshot(EmptySnapshot, data))]),
        persistCalls |-> store.persistCalls + 1]

persist(store, data) ==
  IF storePath = "" THEN store
  ELSE LET merged == mergeSnapshot(store.cache, data) IN
       [cache |-> merged,
        pendingWrite |-> Append(store.pendingWrite,
                                [n |-> store.persistCalls + 1, payload |-> jsonStringify(merged)]),
        persistCalls |-> store.persistCalls + 1]

\* the onPersist calls of one handler, in order
RECURSIVE persistAll(_, _)
persistAll(store, datas) ==
  IF datas = <<>> THEN store ELSE persistAll(persist(store, Head(datas)), Tail(datas))

Persist(datas) ==
  LET store == persistAll([cache |-> cache, pendingWrite |-> pendingWrite,
                           persistCalls |-> persistCalls], datas)
  IN  /\ store.persistCalls <= MaxPersists
      /\ cache' = store.cache
      /\ pendingWrite' = store.pendingWrite
      /\ persistCalls' = store.persistCalls
      /\ UNCHANGED <<inFlight, file, started, failed>>

\* pendingWrite.then(...): the callback runs once the chain before it has settled
chainSettled_NoWait(writes) == TRUE
chainSettled(writes) == writes = {}

\* .catch(console.error): the chain goes on after a failed write
chainAfterFailure_Broken(queued) == <<>>
chainAfterFailure(queued) == queued

\* ---------------------------------------------------------------- actions
Tick ==
  /\ now < MaxNow
  /\ now' = now + 1
  /\ last' = [op |-> "tick"]
  /\ UNCHANGED <<cfgVars, subVars, billVars, storeVars>>

GetStatus ==
  \E rawBaseId \in RawBaseIds :
    LET r == getStatusCall(rawBaseId) IN
    /\ usage' = r.usage
    /\ last' = [op |-> "getStatus", status |-> r.status, persists |-> 0]
    /\ UNCHANGED <<now, cfgVars, billVars, storeVars, paidUntilMap, adminSet, redeemList, redeemCount>>

ConsumeFor(baseIds) ==
  \E rawBaseId \in baseIds :
    LET r == consume(rawBaseId) IN
    /\ usage' = r.usage
    /\ last' = [op |-> "consume", status |-> r.status, persists |-> 0]
    /\ UNCHANGED <<now, cfgVars, billVars, storeVars, paidUntilMap, adminSet, redeemList, redeemCount>>

Consume == ConsumeFor(RawBaseIds)

SetAdminFor(baseIds) ==
  \E rawBaseId \in baseIds, enabled \in BOOLEAN :
    LET r == setAdmin(rawBaseId, enabled) IN
    /\ adminSet' = r.adminSet
    /\ last' = [op |-> "setAdmin", baseId |-> normalizeBaseId(rawBaseId), enabled |-> enabled,
                result |-> r.result, persists |-> r.persists]
    /\ Persist(IF r.persists = 1
               THEN <<subscriptionData(paidUntilMap, r.adminSet, redeemList)>> ELSE <<>>)
    /\ UNCHANGED <<now, cfgVars, billVars, usage, paidUntilMap, redeemList, redeemCount>>

SetAdmin == SetAdminFor(RawBaseIds)

ActivatePlanFor(baseIds, durations, paidAts) ==
  \E rawBaseId \in baseIds, durationMs \in durations, paidAt \in paidAts :
    LET r == activatePlan(rawBaseId, durationMs, paidAt) IN
    /\ r.result # Null => r.result[1] <= MaxUntil
    /\ paidUntilMap' = r.paidUntilMap
    /\ last' = [op |-> "activatePlan", baseId |-> normalizeBaseId(rawBaseId),
                durationMs |-> durationMs, paidAt |-> paidAt,
                result |-> r.result, persists |-> r.persists,
                \* what the same call returned if it was made just before, at this instant
                prev |-> IF /\ last.op = "activatePlan"
                            /\ last.baseId = normalizeBaseId(rawBaseId)
                            /\ last.durationMs = durationMs
                            /\ last.paidAt = paidAt
                         THEN last.result ELSE Null]
    /\ Persist(IF r.persists = 1
               THEN <<subscriptionData(r.paidUntilMap, adminSet, redeemList)>> ELSE <<>>)
    /\ UNCHANGED <<now, cfgVars, billVars, usage, adminSet, redeemList, redeemCount>>

ActivatePlan == ActivatePlanFor(RawBaseIds, Durations, PaidAts)

AddRedeemCodeFor(codes, durations) ==
  \E code \in codes, durationMs \in durations :
    LET r == addRedeemCode(code, durationMs) IN
    /\ Len(r.redeemList) <= MaxRedeemCodes
    /\ redeemList' = r.redeemList
    /\ last' = [op |-> "addRedeemCode", code |-> code, durationMs |-> durationMs,
                result |-> r.result, persists |-> r.persists]
    /\ Persist(IF r.persists = 1
               THEN <<subscriptionData(paidUntilMap, adminSet, r.redeemList)>> ELSE <<>>)
    /\ UNCHANGED <<now, cfgVars, billVars, usage, paidUntilMap, adminSet, redeemCount>>

AddRedeemCode == AddRedeemCodeFor(NewCodes, Durations)

RedeemFor(baseIds, codes) ==
  \E rawBaseId \in baseIds, code \in codes :
    LET r == redeem(rawBaseId, code) IN
    /\ r.ok => (r.paidUntil # Null => r.paidUntil[1] <= MaxUntil)
    /\ paidUntilMap' = r.paidUntilMap
    /\ redeemList' = r.redeemList
    /\ redeemCount' = IF r.ok THEN [redeemCount EXCEPT ![code] = @ + 1] ELSE redeemCount
    /\ last' = [op |-> "redeem", baseId |-> normalizeBaseId(rawBaseId), code |-> code,
                ok |-> r.ok, message |-> IF r.ok THEN "" ELSE r.message,
                paidUntil |-> IF r.ok THEN r.paidUntil ELSE Null, persists |-> r.persists]
    \* setPaidUntil persists while the code is still unused, redeem once it is marked
    /\ Persist((IF r.persists = 2
                THEN <<subscriptionData(r.paidUntilMap, adminSet, redeemList)>> ELSE <<>>)
               \o (IF r.persists >= 1
                   THEN <<subscriptionData(r.paidUntilMap, adminSet, r.redeemList)>> ELSE <<>>))
    /\ UNCHANGED <<now, cfgVars, billVars, usage, adminSet>>

Redeem == RedeemFor(RawBaseIds, Codes)

\* submitTask once the external service has accepted the task (lines 58-70); a
\* durationMs that is given but not a positive number was rejected before (39-44)
SubmitTaskFor(baseIds, durations) ==
  \E rawBaseId \in baseIds, durationMs \in durations :
    LET taskId == nextTaskId + 1
        normalizedBaseId == normalizeBaseId(rawBaseId)
    IN
    /\ nextTaskId < MaxTasks
    /\ nextTaskId' = taskId
    /\ billingTasks' = IF normalizedBaseId # NoTenant
                       THEN mapSet(billingTasks, taskId,
                                   [baseId |-> normalizedBaseId, charged |-> FALSE,
                                    durationMs |-> durationMs])
                       ELSE billingTasks
    /\ last' = [op |-> "submitTask", taskId |-> taskId, baseId |-> normalizedBaseId]
    /\ UNCHANGED <<now, cfgVars, subVars, storeVars, pricingMap, usageMap, dailyUsageMap, recorded,
                   billingOrders, queries>>

SubmitTask == SubmitTaskFor(RawBaseIds, SubmitDurations)

\* recordUsageOnce({taskId, durationMs}), as queryTask calls it on completion
ChargeOnce ==
  \E taskId \in 0..MaxTasks, durationMs \in ObservedDurations :
    LET r == chargeOnce(taskId, durationMs) IN
    /\ billingTasks' = r.billingTasks
    /\ usageMap' = r.usageMap
    /\ dailyUsageMap' = r.dailyUsageMap
    /\ recorded' = IF r.billed THEN [recorded EXCEPT ![taskId] = @ + 1] ELSE recorded
    /\ last' = [op |-> "chargeOnce", taskId |-> taskId, result |-> r.result, persists |-> r.persists,
                durationMs |-> durationMs]
    /\ Persist(IF r.persists = 1
               THEN <<billingData(pricingMap, r.usageMap, r.dailyUsageMap)>> ELSE <<>>)
    /\ UNCHANGED <<now, cfgVars, subVars, pricingMap, nextTaskId, billingOrders, queries>>

SetPricingFor(baseIds, pricings) ==
  \E rawBaseId \in baseIds, nextPricing \in pricings :
    LET r == setPricing(rawBaseId, nextPricing) IN
    /\ pricingMap' = r.pricingMap
    /\ last' = [op |-> "setPricing", baseId |-> normalizeBaseId(rawBaseId), result |-> r.result,
                pricing |-> nextPricing, persists |-> r.persists]
    /\ Persist(IF r.persists = 1
               THEN <<billingData(r.pricingMap, usageMap, dailyUsageMap)>> ELSE <<>>)
    /\ UNCHANGED <<now, cfgVars, subVars, usageMap, dailyUsageMap, billingTasks, nextTaskId, recorded,
                   billingOrders, queries>>

SetPricing == SetPricingFor(RawBaseIds, PricingInputs)

\* getPricing(baseId), as the pricing and usage endpoints call it
GetPricing ==
  \E baseId \in Tenants \cup {NoTenant} :
    /\ last' = [op |-> "getPricing", baseId |-> baseId, result |-> getPricing(baseId),
                \* the profile a setPricing call has just stored for this tenant
                override |-> IF last.op = "setPricing" /\ last.result /\ last.baseId = baseId
                             THEN Some(last.pricing) ELSE Null]
    /\ UNCHANGED <<now, cfgVars, subVars, billVars, storeVars>>

RECURSIVE sumCounts(_, _)
sumCounts(map, keys) ==
  IF keys = {} THEN 0
  ELSE LET k == CHOOSE x \in keys : TRUE IN map[k].count + sumCounts(map, keys \ {k})

\* minutes held by the ledger over all tenants
totalMinutes(map) == sumCounts(map, DOMAIN map)

RecordUsageFor(baseIds, quantities, occurredAts) ==
  \E rawBaseId \in baseIds, q \in quantities, occurredAt \in occurredAts :
    LET r == recordUsage(rawBaseId, q.units, q.minutes, q.durationMs, occurredAt) IN
    /\ totalMinutes(r.usageMap) <= MaxMinutes
    /\ usageMap' = r.usageMap
    /\ dailyUsageMap' = r.dailyUsageMap
    /\ last' = [op |-> "recordUsage", baseId |-> normalizeBaseId(rawBaseId), result |-> r.result,
                persists |-> r.persists, quantity |-> q,
                dateKey |-> getDateKey(IF occurredAt # Null THEN occurredAt[1] ELSE now)]
    /\ Persist(IF r.persists = 1
               THEN <<billingData(pricingMap, r.usageMap, r.dailyUsageMap)>> ELSE <<>>)
    /\ UNCHANGED <<now, cfgVars, subVars, pricingMap, billingTasks, nextTaskId, recorded,
                   billingOrders, queries>>

RecordUsage == RecordUsageFor(RawBaseIds, UsageQuantities, OccurredAts)

\* queryTask up to its await: the request is checked and the status call is sent
QueryStart ==
  \E taskId \in 0..MaxTasks :
    /\ Len(queries) < MaxQueries
    /\ queries' = IF taskId = NoTask THEN queries
                  ELSE Append(queries,
                              [taskId |-> taskId,
                               \* the entry the task map holds as the request comes in
                               cached |-> IF taskId \in DOMAIN billingTasks
                                          THEN Some(billingTasks[taskId]) ELSE Null])
    /\ last' = [op |-> "queryStart", taskId |-> taskId, ok |-> taskId # NoTask]
    /\ UNCHANGED <<now, cfgVars, subVars, storeVars, pricingMap, usageMap, dailyUsageMap,
                   billingTasks, nextTaskId, recorded, billingOrders>>

\* queryTask after its await: only the completed status reaches recordUsageOnce
queryOutcome_BillsAnyStatus(query, status, durationMs) == recordUsageOnce(query, durationMs)

queryOutcome(query, status, durationMs) ==
  IF status = "done" THEN recordUsageOnce(query, durationMs) ELSE chargeUnknown(Null)

\* queryTask from its await on: one suspended handler resumes with the reported
\* status and runs to its response; a completed task is handed to recordUsageOnce
QueryResume ==
  \E i \in 1..Len(queries), status \in QueryStatuses, durationMs \in ObservedDurations :
    LET query == queries[i]
        r == queryOutcome(query, status, durationMs)
    IN
    /\ queries' = SubSeq(queries, 1, i - 1) \o SubSeq(queries, i + 1, Len(queries))
    /\ billingTasks' = r.billingTasks
    /\ usageMap' = r.usageMap
    /\ dailyUsageMap' = r.dailyUsageMap
    /\ recorded' = IF r.billed THEN [recorded EXCEPT ![query.taskId] = @ + 1] ELSE recorded
    /\ last' = [op |-> "queryTask", taskId |-> query.taskId, status |-> status,
                cached |-> query.cached, billed |-> r.billed, result |-> r.result,
                persists |-> r.persists]
    /\ Persist(IF r.persists = 1
               THEN <<billingData(pricingMap, r.usageMap, r.dailyUsageMap)>> ELSE <<>>)
    /\ UNCHANGED <<now, cfgVars, subVars, pricingMap, nextTaskId, billingOrders>>

\* billingPlans: the plans on sale and their durations
billingPlans == [id \in {"monthly"} |-> [durationMs |-> 1]]

\* checkout: an order for a known tenant and plan, pending until it is paid
Checkout ==
  \E rawBaseId \in OneTenantIds, planId \in PlanIds :
    LET normalized == normalizeBaseId(rawBaseId)
        accepted == normalized # NoTenant /\ planId \in DOMAIN billingPlans
    IN
    /\ Len(billingOrders) < MaxOrders
    /\ billingOrders' = IF accepted
                        THEN Append(billingOrders, [baseId |-> normalized, planId |-> planId,
                                                    status |-> "pending", paidUntil |-> Null])
                        ELSE billingOrders
    /\ last' = [op |-> "checkout", ok |-> accepted]
    /\ UNCHANGED <<now, cfgVars, subVars, storeVars, pricingMap, usageMap, dailyUsageMap,
                   billingTasks, nextTaskId, recorded, queries>>

\* finalizePaidOrder({orderId, paidAt}): what it returns, the orders and the
\* paid-until map it leaves
finalizePaidOrder(orderId, paidAt) ==
  IF orderId \notin 1..Len(billingOrders)
  THEN [ok |-> FALSE, status |-> 404, billingOrders |-> billingOrders,
        paidUntilMap |-> paidUntilMap, persists |-> 0]
  ELSE LET order == billingOrders[orderId] IN
       IF order.planId \notin DOMAIN billingPlans
       THEN [ok |-> FALSE, status |-> 400, billingOrders |-> billingOrders,
             paidUntilMap |-> paidUntilMap, persists |-> 0]
       ELSE LET plan == activatePlan(order.baseId, billingPlans[order.planId].durationMs,
                                     IF paidAt # NoPaidAt THEN paidAt ELSE now)
            IN  [ok |-> TRUE, paidUntil |-> plan.result,
                 billingOrders |-> [billingOrders EXCEPT ![orderId].status = "paid",
                                                         ![orderId].paidUntil = plan.result],
                 paidUntilMap |-> plan.paidUntilMap, persists |-> plan.persists]

\* the webhook and the aggregator notification: both finalize a "paid" order; any
\* other status is stored on the order by the webhook and ignored by the aggregator
Notify ==
  \E channel \in {"webhook", "aggregator"}, orderId \in 0..MaxOrders,
     status \in OrderStatuses, paidAt \in {NoPaidAt, 2} :
    LET known == orderId \in 1..Len(billingOrders)
        r == finalizePaidOrder(orderId, paidAt)
    IN
    /\ IF status # "paid"
       THEN /\ billingOrders' = IF channel = "webhook" /\ known
                                THEN [billingOrders EXCEPT ![orderId].status = status]
                                ELSE billingOrders
            /\ paidUntilMap' = paidUntilMap
            /\ last' = [op |-> "notify", channel |-> channel, orderId |-> orderId,
                        status |-> status, ok |-> (channel = "aggregator" \/ known)]
            /\ Persist(<<>>)
       ELSE /\ r.ok => r.paidUntil[1] <= MaxUntil
            /\ billingOrders' = r.billingOrders
            /\ paidUntilMap' = r.paidUntilMap
            /\ last' = [op |-> "notify", channel |-> channel, orderId |-> orderId,
                        status |-> status, ok |-> r.ok]
            /\ Persist(IF r.persists = 1
                       THEN <<subscriptionData(r.paidUntilMap, adminSet, redeemList)>> ELSE <<>>)
    /\ UNCHANGED <<now, cfgVars, usage, adminSet, redeemList, redeemCount, pricingMap, usageMap,
                   dailyUsageMap, billingTasks, nextTaskId, recorded, queries>>

\* the .then callback of the oldest queued write runs: fs.promises.writeFile starts
WriteStart ==
  /\ pendingWrite # <<>>
  /\ chainSettled(inFlight)
  /\ inFlight' = inFlight \cup {Head(pendingWrite)}
  /\ pendingWrite' = Tail(pendingWrite)
  /\ started' = started + 1
  /\ UNCHANGED <<now, cfgVars, subVars, billVars, last, cache, file, persistCalls, failed>>

\* a writeFile in progress resolves: the file holds its payload
WriteSucceeds ==
  \E w \in inFlight :
    /\ inFlight' = inFlight \ {w}
    /\ file' = Some(w.payload)
    /\ UNCHANGED <<now, cfgVars, subVars, billVars, last, cache, pendingWrite, persistCalls,
                   started, failed>>

\* a writeFile in progress rejects: the file is as it was, or left unreadable
WriteFails ==
  \E w \in inFlight :
    /\ inFlight' = inFlight \ {w}
    /\ file' \in {file, Null}
    /\ failed' = failed + 1
    /\ pendingWrite' = chainAfterFailure(pendingWrite)
    /\ UNCHANGED <<now, cfgVars, subVars, billVars, last, cache, persistCalls, started>>

\* the codes a snapshot records as used
usedCodes(list) == { list[i].codeHash : i \in { k \in 1..Len(list) : list[k].usedAt # 0 } }

\* the process ends and initStores runs again on the snapshot file: the queued
\* writes are lost, the trial counters and the pending tasks start empty
Restart ==
  LET storeCache == readStore(file) IN
  /\ inFlight = {}
  /\ usage' = [t \in Tenants |-> 0]
  /\ paidUntilMap' = storeCache.paidUntilByBaseId
  /\ adminSet' = storeCache.adminBaseIdList \cup {SeedAdminBaseId}
  /\ redeemList' = mergeRedeemCodes(storeCache.redeemCodes, seedRedeemCodes)
  /\ pricingMap' = storeCache.pricingByBaseId
  /\ usageMap' = storeCache.usageByBaseId
  /\ dailyUsageMap' = storeCache.dailyUsageByBaseId
  /\ billingTasks' = << >>
  /\ billingOrders' = << >>
  /\ queries' = << >>
  /\ cache' = storeCache
  /\ pendingWrite' = <<>>
  /\ last' = [op |-> "restart", usedCodes |-> usedCodes(storeCache.redeemCodes),
              \* whether the file held the latest snapshot, and what getPricing gave
              written |-> (file = Some(jsonStringify(cache))),
              pricingBefore |-> [t \in Tenants |-> getPricing(t)]]
  /\ UNCHANGED <<now, cfgVars, redeemCount, nextTaskId, recorded, inFlight, file,
                 persistCalls, started, failed>>

\* createWriteStore(storePath, readStore(storePath)) with no snapshot file yet
InitWriteStore ==
  /\ cache = EmptySnapshot
  /\ pendingWrite = <<>>
  /\ inFlight = {}
  /\ file = Null
  /\ persistCalls = 0
  /\ started = 0
  /\ failed = 0

\* createSubscriptionStore as initStores builds it: no trial use yet, the paid-until
\* map empty, the seed admin, the redeem list holding a built-in seed code
Configs ==
  { [allowBypass |-> FALSE, paidBaseIds |-> {}],
    [allowBypass |-> FALSE, paidBaseIds |-> {<<"b">>}],
    [allowBypass |-> TRUE, paidBaseIds |-> {}] }

InitSubscriptionStore ==
  /\ usage = [t \in Tenants |-> 0]
  /\ paidUntilMap = << >>
  /\ adminSet = {SeedAdminBaseId}
  /\ redeemList = << [codeHash |-> hashCode(SeedCode), durationMs |-> SeedDuration,
                      usedAt |-> 0, usedBy |-> NoTenant] >>
  /\ redeemCount = [c \in Codes |-> 0]

\* createBillingStore with empty ledgers, and the task map of billing.service.js
InitBillingStore ==
  /\ pricingMap = << >>
  /\ usageMap = << >>
  /\ dailyUsageMap = << >>
  /\ billingTasks = << >>
  /\ billingOrders = << >>
  /\ queries = << >>
  /\ nextTaskId = 0
  /\ recorded = [k \in 0..MaxTasks |-> 0]

Init ==
  /\ now = 1
  /\ \E c \in Configs : allowBypass = c.allowBypass /\ paidBaseIds = c.paidBaseIds
  /\ defaultPricing \in DefaultPricings
  /\ storePath \in StorePaths
  /\ InitSubscriptionStore
  /\ InitBillingStore
  /\ InitWriteStore
  /\ last = [op |-> "init"]

Next ==
  \/ Tick \/ GetStatus \/ Consume \/ SetAdmin \/ ActivatePlan \/ AddRedeemCode \/ Redeem
  \/ SubmitTask \/ ChargeOnce \/ SetPricing \/ GetPricing \/ RecordUsage
  \/ QueryStart \/ QueryResume \/ Checkout \/ Notify
  \/ WriteStart \/ WriteSucceeds \/ WriteFails \/ Restart

Spec == Init /\ [][Next]_vars

\* the subscription ledger alone, under the installation's default pricing
InitSubscription == Init /\ defaultPricing = DefaultFlat /\ storePath = ""

\* admission: the trial counter, the paid period and the admin set
NextAdmission == Tick \/ GetStatus \/ Consume \/ SetAdmin \/ ActivatePlan

SpecAdmission == InitSubscription /\ [][NextAdmission]_vars

\* redeem codes
NextRedeem == Tick \/ GetStatus \/ AddRedeemCode \/ Redeem

SpecRedeem == InitSubscription /\ [][NextRedeem]_vars

\* the billing ledger and the charge bridge alone
InitBilling == Init /\ ~allowBypass /\ paidBaseIds = {} /\ storePath = ""

\* the charge bridge: tasks submitted, then charged on completion
NextBridge == Tick \/ SubmitTask \/ ChargeOnce

SpecBridge == InitBilling /\ [][NextBridge]_vars

\* submissions and completions alone, within one day
NextCharge == SubmitTask \/ ChargeOnce

SpecCharge == InitBilling /\ [][NextCharge]_vars

\* the billing store called directly
InitUsage == InitBilling /\ defaultPricing = DefaultTiered

NextUsage == Tick \/ SetPricing \/ RecordUsage

SpecUsage == InitUsage /\ [][NextUsage]_vars

\* recordUsage on quantities of every shape, over two days
NextQuantity == Tick \/ RecordUsageFor(Tenants, QuantityCases, OccurredAts)

SpecQuantity == InitUsage /\ [][NextQuantity]_vars

\* tenant "b" is an established customer: it has consumed a trial use, activated
\* a plan, become admin, recorded one minute and then set its price; tenant "a"
\* now calls every ledger operation
OneMinute == [units |-> NaN, minutes |-> 1, durationMs |-> NaN]

InitIsolation ==
  /\ now = 1
  /\ allowBypass = FALSE
  /\ paidBaseIds = {}
  /\ defaultPricing = DefaultTiered
  /\ storePath = ""
  /\ usage = [t \in Tenants |-> IF t = <<"b">> THEN 1 ELSE 0]
  /\ paidUntilMap = (<<"b">> :> 2)
  /\ adminSet = {SeedAdminBaseId, <<"b">>}
  /\ redeemList = seedRedeemCodes
  /\ redeemCount = [c \in Codes |-> 0]
  /\ pricingMap = (<<"b">> :> normalizePricing(FlatPricing))
  /\ usageMap = (<<"b">> :> [count |-> 1, minutes |-> 1, cost |-> 20000])
  /\ dailyUsageMap = (<<"b">> :> (0 :> [minutes |-> 1, cost |-> 20000]))
  /\ billingTasks = << >>
  /\ billingOrders = << >>
  /\ queries = << >>
  /\ nextTaskId = 0
  /\ recorded = [k \in 0..MaxTasks |-> 0]
  /\ InitWriteStore
  /\ last = [op |-> "setPricing", baseId |-> <<"b">>, result |-> TRUE,
             pricing |-> FlatPricing, persists |-> 1]

NextIsolation ==
  \/ ConsumeFor({<<"a">>})
  \/ SetAdminFor({<<"a">>})
  \/ ActivatePlanFor({<<"a">>}, {1}, {NoPaidAt})
  \/ RedeemFor({<<"a">>}, {SeedCode})
  \/ SetPricingFor({<<"a">>}, {FlatPricing})
  \/ RecordUsageFor({<<"a">>}, {OneMinute}, {Null})
  \/ SubmitTaskFor({<<"a">>}, {NaN})
  \/ ChargeOnce

SpecIsolation == InitIsolation /\ [][NextIsolation]_vars

\* metering under the profiles the pricing endpoint accepts, flat default pricing
InitCost == InitBilling /\ defaultPricing = DefaultFlat

NextCost ==
  \/ Tick
  \/ SetPricingFor({<<"a">>}, PricingInputs \cup {RefundPricing})
  \/ RecordUsageFor({<<"a">>}, UsageQuantities, OccurredAts)

SpecCost == InitCost /\ [][NextCost]_vars

\* the tier-crossing cost as a pure function: a raw schedule is normalized as
\* normalizePricing does, then calculateTieredCost is applied to it
TierBoundaries == { 2, 5, Infinity }
TierUnitPrices == { 20000, 10000, 5000 }
RawTiers == { TierItem(b, p) : b \in TierBoundaries, p \in TierUnitPrices }
RawSchedules == UNION { [1..n -> RawTiers] : n \in 0..MaxTiers }

InitPricing ==
  /\ now = 1
  /\ allowBypass = FALSE
  /\ paidBaseIds = {}
  /\ defaultPricing = DefaultFlat
  /\ storePath = ""
  /\ InitSubscriptionStore
  /\ InitBillingStore
  /\ InitWriteStore
  /\ \E raw \in RawSchedules, prevMinutes \in 0..MaxPrev, addMinutes \in 1..MaxAdd,
        fallbackUnitPrice \in FallbackUnitPrices :
       last = [op |-> "input", tieredPrices |-> raw, prevMinutes |-> prevMinutes,
               addMinutes |-> addMinutes, fallbackUnitPrice |-> fallbackUnitPrice]

CalculateTieredCost ==
  /\ last.op = "input"
  /\ LET tiers == normalizeTieredPrices(last.tieredPrices, last.fallbackUnitPrice) IN
     last' = [op |-> "calculateTieredCost", tieredPrices |-> tiers,
              prevMinutes |-> last.prevMinutes, addMinutes |-> last.addMinutes,
              fallbackUnitPrice |-> last.fallbackUnitPrice,
              cost |-> calculateTieredCost(tiers, last.prevMinutes, last.addMinutes,
                                           last.fallbackUnitPrice)]
  /\ UNCHANGED <<now, cfgVars, subVars, billVars, storeVars>>

SpecPricing == InitPricing /\ [][CalculateTieredCost]_vars

\* the price quoted for a daily total as a pure function: a raw schedule, which may
\* hold a free tier, is normalized, then resolveCurrentTierUnitPrice is applied to it
QuoteBoundaries == { 1, 2, Infinity }
QuoteUnitPrices == { 0, 20000, 10000 }
QuoteTiers == { TierItem(b, p) : b \in QuoteBoundaries, p \in QuoteUnitPrices }
QuoteSchedules == UNION { [1..n -> QuoteTiers] : n \in 0..MaxTiers }

InitTierPrice ==
  /\ now = 1
  /\ allowBypass = FALSE
  /\ paidBaseIds = {}
  /\ defaultPricing = DefaultFlat
  /\ storePath = ""
  /\ InitSubscriptionStore
  /\ InitBillingStore
  /\ InitWriteStore
  /\ \E raw \in QuoteSchedules, total \in 0..MaxPrev,
        fallbackUnitPrice \in FallbackUnitPrices :
       last = [op |-> "input", tieredPrices |-> raw, totalMinutes |-> total,
               fallbackUnitPrice |-> fallbackUnitPrice]

ResolveCurrentTierUnitPrice ==
  /\ last.op = "input"
  /\ LET tiers == normalizeTieredPrices(last.tieredPrices, last.fallbackUnitPrice) IN
     last' = [op |-> "resolveCurrentTierUnitPrice", tieredPrices |-> tiers,
              totalMinutes |-> last.totalMinutes,
              fallbackUnitPrice |-> last.fallbackUnitPrice,
              unitPrice |-> resolveCurrentTierUnitPrice(tiers, last.totalMinutes,
                                                        last.fallbackUnitPrice)]
  /\ UNCHANGED <<now, cfgVars, subVars, billVars, storeVars>>

SpecTierPrice == InitTierPrice /\ [][ResolveCurrentTierUnitPrice]_vars

\* one tenant on trial, then admitted by a plan, by admin rights or by bypass
NextTrial ==
  \/ Tick
  \/ ConsumeFor({<<"a">>})
  \/ SetAdminFor({<<"a">>})
  \/ ActivatePlanFor({<<"a">>}, {1}, {NoPaidAt})

SpecTrial == InitSubscription /\ [][NextTrial]_vars

\* tasks submitted with and without a tenant, and queried until they complete
NextCompletion == SubmitTaskFor(OneTenantIds, {NaN}) \/ QueryStart \/ QueryResume

SpecCompletion == InitUsage /\ [][NextCompletion]_vars

\* the paid period of a tenant: granted by a plan or a code, read as time passes
NextPaidPeriod ==
  \/ Tick
  \/ GetStatus
  \/ ConsumeFor(OneTenantIds)
  \/ ActivatePlanFor(RawBaseIds, Durations, {NoPaidAt, 2})
  \/ RedeemFor(RawBaseIds, {SeedCode})

SpecPaidPeriod == InitSubscription /\ [][NextPaidPeriod]_vars

\* every mutating call of both ledgers, for one tenant and the ids that name none
InitLedgers == Init /\ ~allowBypass /\ paidBaseIds = {} /\ defaultPricing = DefaultTiered
               /\ storePath = ""

NextLedgers ==
  \/ ConsumeFor(OneTenantIds)
  \/ SetAdminFor(OneTenantIds)
  \/ ActivatePlanFor(OneTenantIds, {1}, {NoPaidAt})
  \/ RedeemFor(OneTenantIds, {"", SeedCode})
  \/ SetPricingFor(OneTenantIds, PricingInputs)
  \/ RecordUsageFor(OneTenantIds, {[units |-> NaN, minutes |-> 2, durationMs |-> NaN]}, {Null})

SpecLedgers == InitLedgers /\ [][NextLedgers]_vars

\* the persistence sink under both ledgers, with a store path configured
InitStore == Init /\ ~allowBypass /\ paidBaseIds = {} /\ defaultPricing = DefaultTiered
             /\ storePath # ""

NextStore == Redeem \/ SetPricing \/ WriteStart \/ WriteSucceeds \/ WriteFails

SpecStore == InitStore /\ [][NextStore]_vars

\* the event loop runs a callback that is ready, and a write in progress completes
SpecStoreFair ==
  SpecStore /\ WF_vars(WriteStart) /\ WF_vars(WriteSucceeds \/ WriteFails)

\* pricing profiles: the default of the installation and the overrides of tenants
InitProfiles == InitBilling

NextProfiles == SetPricing \/ GetPricing

SpecProfiles == InitProfiles /\ [][NextProfiles]_vars

\* query requests that overlap: submitted tasks polled by several handlers
NextQuery == SubmitTaskFor({<<"a">>}, {NaN}) \/ QueryStart \/ QueryResume

SpecQuery == InitUsage /\ [][NextQuery]_vars

\* orders: checkout, then the payment notifications
NextOrders == Tick \/ GetStatus \/ Checkout \/ Notify

SpecOrders == InitSubscription /\ [][NextOrders]_vars

\* admission and task submission: the two requests a client makes to start work
NextGate == Tick \/ ConsumeFor(OneTenantIds) \/ SetAdminFor({<<"a">>}) \/ SubmitTask

SpecGate == InitSubscription /\ [][NextGate]_vars

\* redeem codes and pricing profiles over restarts of the process
NextRestart ==
  \/ AddRedeemCodeFor({"K1"}, {1})
  \/ RedeemFor({<<"a">>}, {SeedCode, "K1"})
  \/ SetPricingFor({<<"a">>}, PricingInputs)
  \/ WriteStart \/ WriteSucceeds \/ WriteFails
  \/ Restart

SpecRestart == InitStore /\ [][NextRestart]_vars

\* every mutating call of both ledgers for one tenant, with a store path configured
NextSink ==
  \/ ConsumeFor({<<"a">>})
  \/ SetAdminFor({<<"a">>})
  \/ ActivatePlanFor({<<"a">>}, {1}, {NoPaidAt})
  \/ AddRedeemCodeFor({"K1"}, {1})
  \/ RedeemFor({<<"a">>}, {SeedCode})
  \/ SetPricingFor({<<"a">>}, { p \in PricingInputs : p.tieredPrices # Null })
  \/ RecordUsageFor({<<"a">>}, {[units |-> NaN, minutes |-> 2, durationMs |-> NaN]}, {Null})

SpecSink == InitStore /\ [][NextSink]_vars

\* ------------------------------------------------------------- properties

\* C1: each submitted task leads to at most one recordUsage call, and a chargeOnce
\* for a task that was already charged returns null and leaves the usage totals and
\* the daily usage as they were.
C1_ChargeOnce ==
  /\ [](\A k \in 1..MaxTasks : recorded[k] <= 1)
  /\ [][\A k \in 1..MaxTasks :
          (last'.op = "chargeOnce" /\ last'.taskId = k /\ recorded[k] = 1)
            => /\ last'.result = Null
               /\ usageMap' = usageMap
               /\ dailyUsageMap' = dailyUsageMap]_vars

\* a task was charged, and a second chargeOnce for it has returned null
C1_Witness ==
  /\ last.op = "chargeOnce"
  /\ last.taskId \in 1..MaxTasks
  /\ recorded[last.taskId] = 1
  /\ last.result = Null
  /\ usageMap # << >>

\* C2: chargeOnce for a task id with no pending entry (never registered, or already
\* removed) returns null, leaves the usage totals, the daily usage and the pending
\* map unchanged, and persists nothing.
C2_UnknownTask ==
  [][(last'.op = "chargeOnce" /\ last'.taskId \notin DOMAIN billingTasks)
        => /\ last'.result = Null
           /\ last'.persists = 0
           /\ usageMap' = usageMap
           /\ dailyUsageMap' = dailyUsageMap
           /\ billingTasks' = billingTasks]_vars

\* chargeOnce has returned null for an id no task was ever submitted with, while
\* another task is pending
C2_Witness ==
  /\ last.op = "chargeOnce"
  /\ last.taskId > nextTaskId
  /\ last.result = Null
  /\ billingTasks # << >>

\* C3: no code is redeemed successfully more than once, and a redeem of a code that
\* was redeemed before fails with "already used", whichever tenant asks.
C3_RedeemOnce ==
  /\ \A c \in Codes : redeemCount[c] <= 1
  /\ (last.op = "redeem" /\ last.baseId # NoTenant /\ last.code # ""
        /\ redeemCount[last.code] = 1 /\ ~last.ok)
       => last.message = "already used"

\* a tenant was refused a code that another tenant had redeemed
C3_Witness ==
  /\ last.op = "redeem"
  /\ ~last.ok
  /\ last.message = "already used"
  /\ redeemCount[last.code] = 1
  /\ \E i \in 1..Len(redeemList) :
       /\ redeemList[i].codeHash = hashCode(last.code)
       /\ redeemList[i].usedBy # NoTenant
       /\ redeemList[i].usedBy # last.baseId

\* the tenant of a status is neither admitted by bypass, nor admin, nor paid
OnTrial(t) ==
  /\ ~allowBypass
  /\ t \notin adminSet
  /\ t \notin paidBaseIds
  /\ ~(t \in DOMAIN paidUntilMap /\ paidUntilMap[t] # 0 /\ now <= paidUntilMap[t])

\* C4: on the trial branch consume with trial uses left adds exactly one to the
\* tenant's counter and returns allowed with the remaining after the increment; with
\* none left it returns not allowed and changes no counter.
C4_ConsumeTrial ==
  [][(last'.op = "consume" /\ last'.status.baseId # NoTenant /\ OnTrial(last'.status.baseId))
        => LET t == last'.status.baseId IN
           IF TrialLimit - usage[t] > 0
           THEN /\ usage' = [usage EXCEPT ![t] = usage[t] + 1]
                /\ last'.status.allowed
                /\ last'.status.freeRemaining = TrialLimit - usage'[t]
           ELSE /\ usage' = usage
                /\ ~last'.status.allowed
                /\ last'.status.freeRemaining = 0]_vars

\* consume was refused for a tenant whose trial is used up
C4_Witness ==
  /\ last.op = "consume"
  /\ last.status.baseId # NoTenant
  /\ ~last.status.allowed
  /\ usage[last.status.baseId] = TrialLimit

\* C5: the freeRemaining returned by getStatus and by consume is never negative and
\* never more than the trial limit.
C5_FreeRemainingRange ==
  last.op \in {"getStatus", "consume"}
    => (last.status.freeRemaining >= 0 /\ last.status.freeRemaining <= TrialLimit)

\* a paid tenant whose trial is used up is reported the full trial limit
C5_Witness ==
  /\ last.op = "getStatus"
  /\ last.status.isPaid
  /\ last.status.freeRemaining = TrialLimit
  /\ usage[last.status.baseId] = TrialLimit

\* C6: admission goes by precedence: bypass, then admin, then the paid list or a
\* paid period that has not ended, then the trial (allowed iff uses remain).
C6_Precedence ==
  [][(last'.op \in {"getStatus", "consume"} /\ last'.status.baseId # NoTenant)
        => LET t == last'.status.baseId
               st == last'.status
           IN  IF allowBypass THEN st.allowed
               ELSE IF t \in adminSet
                    THEN st.isPaid /\ st.allowed /\ st.message = "admin"
               ELSE IF t \in paidBaseIds \/ (t \in DOMAIN paidUntilMap /\ paidUntilMap[t] >= now)
                    THEN st.isPaid /\ st.allowed /\ st.message = "paid"
               ELSE ~st.isPaid /\ (st.allowed <=> TrialLimit - usage[t] > 0)]_vars

\* an admin whose trial is used up and whose paid period has ended is admitted
C6_Witness ==
  /\ last.op = "getStatus"
  /\ last.status.baseId # NoTenant
  /\ last.status.message = "admin"
  /\ last.status.allowed
  /\ usage[last.status.baseId] = TrialLimit
  /\ last.status.baseId \in DOMAIN paidUntilMap
  /\ paidUntilMap[last.status.baseId] < now

\* C7: activatePlan(t, D, now) made twice in succession at one instant returns a
\* second paidUntil that is the first plus D.
C7_StackByD ==
  (last.op = "activatePlan" /\ last.result # Null /\ last.prev # Null
     /\ last.paidAt \in {NoPaidAt, now})
    => last.result[1] = last.prev[1] + last.durationMs

\* C8: a tenant's stored paidUntil never moves backward.
C8_NeverBackward ==
  [][\A t \in DOMAIN paidUntilMap :
        t \in DOMAIN paidUntilMap' /\ paidUntilMap'[t] >= paidUntilMap[t]]_vars

\* the price of the minute at a position of the day: the first tier whose boundary
\* is at least the position, the fallback beyond every boundary
PriceAt(tiers, position, fallbackUnitPrice) ==
  LET hits == { i \in 1..Len(tiers) : tiers[i].upToMinutes >= position } IN
  IF hits = {} THEN fallbackUnitPrice
  ELSE tiers[CHOOSE i \in hits : \A j \in hits : i <= j].unitPrice

RECURSIVE SplitCost(_, _, _, _)
SplitCost(tiers, prevMinutes, addMinutes, fallbackUnitPrice) ==
  IF addMinutes = 0 THEN 0
  ELSE PriceAt(tiers, prevMinutes + addMinutes, fallbackUnitPrice)
       + SplitCost(tiers, prevMinutes, addMinutes - 1, fallbackUnitPrice)

\* C9: the cost of adding minutes at a previous daily total is the sum, over the
\* positions prev+1..prev+add, of the price of the first tier whose boundary is at
\* least the position, or of the fallback beyond every boundary and without tiers.
C9_TierSplit ==
  last.op = "calculateTieredCost"
    => last.cost = SplitCost(last.tieredPrices, last.prevMinutes, last.addMinutes,
                             last.fallbackUnitPrice)

\* tiers [<=2 @0.2, <=5 @0.1, unbounded @0.05], prev = 1, add = 2 cost 0.2 + 0.1
C9_Witness ==
  /\ last.op = "calculateTieredCost"
  /\ last.tieredPrices = << [upToMinutes |-> 2, unitPrice |-> 20000],
                            [upToMinutes |-> 5, unitPrice |-> 10000],
                            [upToMinutes |-> Infinity, unitPrice |-> 5000] >>
  /\ last.prevMinutes = 1
  /\ last.addMinutes = 2
  /\ last.cost = 30000

RECURSIVE SumDailyMinutes(_, _)
SumDailyMinutes(byDate, dates) ==
  IF dates = {} THEN 0
  ELSE LET d == CHOOSE x \in dates : TRUE IN
       byDate[d].minutes + SumDailyMinutes(byDate, dates \ {d})

\* C10: a tenant's total minutes are the sum of its daily minutes over all dates.
C10_TotalIsSumOfDays ==
  \A t \in Tenants :
    (IF t \in DOMAIN usageMap THEN usageMap[t].count ELSE 0)
      = (IF t \in DOMAIN dailyUsageMap
         THEN SumDailyMinutes(dailyUsageMap[t], DOMAIN dailyUsageMap[t]) ELSE 0)

\* a tenant holds minutes on two dates, more than one minute on one of them
C10_Witness ==
  \E t \in DOMAIN dailyUsageMap :
    /\ Cardinality(DOMAIN dailyUsageMap[t]) = 2
    /\ \E d \in DOMAIN dailyUsageMap[t] : dailyUsageMap[t][d].minutes > 1
    /\ usageMap[t].count = MaxMinutes

\* C11: at most one write of the snapshot file is in progress, a write starts only
\* when no write is in progress, and the k-th write started carries the snapshot of
\* the k-th persist call.
C11_ChainedWrites ==
  /\ [](Cardinality(inFlight) <= 1)
  /\ [][started' = started + 1
          => /\ inFlight = {}
             /\ \E w \in inFlight' : w.n = started' /\ w = Head(pendingWrite)]_vars

\* a write is in progress after an earlier one completed, with a later one queued
C11_Witness ==
  /\ Cardinality(inFlight) = 1
  /\ started >= 2
  /\ pendingWrite # <<>>

BillingOps == { "setPricing", "recordUsage", "chargeOnce" }
SubscriptionOps == { "setAdmin", "activatePlan", "addRedeemCode", "redeem" }

\* the fields of a snapshot that hold the subscription ledger are those of another
SameSubscriptionFields(a, b) ==
  /\ a.paidUntilByBaseId = b.paidUntilByBaseId
  /\ a.adminBaseIdList = b.adminBaseIdList
  /\ a.redeemCodes = b.redeemCodes

SameBillingFields(a, b) ==
  /\ a.pricingByBaseId = b.pricingByBaseId
  /\ a.usageByBaseId = b.usageByBaseId
  /\ a.dailyUsageByBaseId = b.dailyUsageByBaseId

\* C12: a persist of the billing ledger leaves the paid-until map, the admin list
\* and the redeem codes of the cache, and of every snapshot it queues for writing,
\* as the cache held them; a persist of the subscription ledger does the same for
\* the pricing, the usage totals and the daily usage.
C12_MergeKeepsAbsentFields ==
  [][persistCalls' > persistCalls
       => /\ last'.op \in BillingOps
               => /\ SameSubscriptionFields(cache', cache)
                  /\ \A i \in 1..Len(pendingWrite') :
                       pendingWrite'[i].n > persistCalls
                         => SameSubscriptionFields(pendingWrite'[i].payload, jsonStringify(cache))
          /\ last'.op \in SubscriptionOps
               => /\ SameBillingFields(cache', cache)
                  /\ \A i \in 1..Len(pendingWrite') :
                       pendingWrite'[i].n > persistCalls
                         => SameBillingFields(pendingWrite'[i].payload, jsonStringify(cache))]_vars

\* setPricing persisted after a redeem: the file written holds the paid-until map,
\* the admin list and the redeem codes next to the pricing
C12_Witness ==
  /\ last.op = "setPricing"
  /\ last.result
  /\ file # Null
  /\ file[1] = jsonStringify(cache)
  /\ file[1].paidUntilByBaseId # << >>
  /\ file[1].adminBaseIdList # {}
  /\ file[1].redeemCodes # << >>
  /\ file[1].pricingByBaseId # << >>

\* C13: a failed write changes neither the ledgers, nor the result the last call
\* returned, nor the cache, nor the writes still queued, and every write queued is
\* started in the end.
C13_WriteFailureSwallowed ==
  /\ [][failed' = failed + 1
          => /\ UNCHANGED <<subVars, billVars, last, cache>>
             /\ pendingWrite' = pendingWrite]_vars
  /\ []<>(started = persistCalls)

\* a write is in progress after an earlier write failed
C13_Witness ==
  /\ failed >= 1
  /\ inFlight # {}
  /\ started = failed + 1

MutatingOps == { "consume", "activatePlan", "setAdmin", "redeem", "setPricing", "recordUsage" }

\* the tenant a call was made for, in canonical form
TenantOfCall(call) == IF call.op = "consume" THEN call.status.baseId ELSE call.baseId

\* the result of a call is the failure its operation reports
FailureShaped(call) ==
  /\ call.persists = 0
  /\ CASE call.op = "consume" -> ~call.status.allowed /\ ~call.status.isPaid
       [] call.op = "activatePlan" -> call.result = Null
       [] call.op \in {"setAdmin", "setPricing"} -> call.result = FALSE
       [] call.op = "redeem" -> ~call.ok
       [] call.op = "recordUsage" -> call.result = [count |-> 0, cost |-> 0]

\* C14: a mutating call whose tenant id is missing or empty after trimming returns
\* the failure of its operation, changes no ledger and persists nothing, and no
\* ledger ever holds an entry for the empty key.
C14_MissingTenantNoOp ==
  /\ [](/\ NoTenant \notin adminSet
        /\ NoTenant \notin DOMAIN paidUntilMap
        /\ NoTenant \notin DOMAIN pricingMap
        /\ NoTenant \notin DOMAIN usageMap
        /\ NoTenant \notin DOMAIN dailyUsageMap
        /\ \A i \in 1..Len(redeemList) : redeemList[i].usedAt # 0 => redeemList[i].usedBy # NoTenant)
  /\ [][(last'.op \in MutatingOps /\ TenantOfCall(last') = NoTenant)
          => /\ FailureShaped(last')
             /\ UNCHANGED <<subVars, billVars, storeVars>>]_vars

\* recordUsage for a blank id has returned zero totals while the ledgers hold a
\* paid period, an override and usage of a tenant
C14_Witness ==
  /\ last.op = "recordUsage"
  /\ last.baseId = NoTenant
  /\ last.result = [count |-> 0, cost |-> 0]
  /\ paidUntilMap # << >>
  /\ pricingMap # << >>
  /\ usageMap # << >>

\* C15: the stored paidUntil of a tenant is the value the last activatePlan or
\* successful redeem for it returned; getStatus reports the tenant paid and allowed
\* while now is at most that value, and afterwards, for a tenant that is neither
\* admin nor on the paid list and without bypass, not paid and allowed iff trial
\* uses remain.
C15_PaidWhileNotExpired ==
  [][/\ (last'.op = "activatePlan" /\ last'.result # Null)
          => (last'.baseId \in DOMAIN paidUntilMap'
              /\ paidUntilMap'[last'.baseId] = last'.result[1])
     /\ (last'.op = "redeem" /\ last'.ok)
          => (last'.paidUntil # Null
              /\ last'.baseId \in DOMAIN paidUntilMap'
              /\ paidUntilMap'[last'.baseId] = last'.paidUntil[1])
     /\ paidUntilMap' # paidUntilMap
          => \/ last'.op = "activatePlan" /\ last'.result # Null
             \/ last'.op = "redeem" /\ last'.ok
     /\ (last'.op = "getStatus" /\ last'.status.baseId \in DOMAIN paidUntilMap)
          => LET t == last'.status.baseId
                 U == paidUntilMap[t]
                 st == last'.status
             IN  /\ now <= U => st.isPaid /\ st.allowed
                 /\ (now > U /\ ~allowBypass /\ t \notin adminSet /\ t \notin paidBaseIds)
                      => ~st.isPaid /\ (st.allowed <=> usage[t] < TrialLimit)]_vars

\* a tenant whose paid period has ended and whose trial is used up is refused
C15_Witness ==
  /\ last.op = "getStatus"
  /\ last.status.baseId \in DOMAIN paidUntilMap
  /\ paidUntilMap[last.status.baseId] >= 1
  /\ now > paidUntilMap[last.status.baseId]
  /\ usage[last.status.baseId] = TrialLimit
  /\ ~last.status.isPaid
  /\ ~last.status.allowed

\* C16: redeem fails with "invalid code" when no record has the hash of the code
\* and with "already used" when the record is used, and a failed redeem changes no
\* paidUntil and no code record and persists nothing; otherwise it extends the
\* tenant's paid period by the duration of the record and marks the record used by
\* the tenant.
C16_RedeemOutcomes ==
  [][last'.op = "redeem"
       => LET t == last'.baseId
              hits == { i \in 1..Len(redeemList) :
                          redeemList[i].codeHash = <<"sha256", last'.code>> }
              first == CHOOSE i \in hits : \A j \in hits : i <= j
              current == IF t \in DOMAIN paidUntilMap THEN paidUntilMap[t] ELSE 0
              start == IF now >= current THEN now ELSE current
          IN  /\ ~last'.ok => /\ paidUntilMap' = paidUntilMap
                              /\ redeemList' = redeemList
                              /\ last'.persists = 0
              /\ IF t = NoTenant \/ last'.code = "" THEN ~last'.ok
                 ELSE IF hits = {} THEN ~last'.ok /\ last'.message = "invalid code"
                 ELSE IF redeemList[first].usedAt # 0
                      THEN ~last'.ok /\ last'.message = "already used"
                 ELSE /\ last'.ok
                      /\ last'.paidUntil = <<start + redeemList[first].durationMs>>
                      /\ paidUntilMap' = [b \in DOMAIN paidUntilMap \cup {t} |->
                                            IF b = t THEN start + redeemList[first].durationMs
                                            ELSE paidUntilMap[b]]
                      /\ Len(redeemList') = Len(redeemList)
                      /\ \A i \in 1..Len(redeemList) :
                           redeemList'[i] = IF i = first
                                            THEN [redeemList[i] EXCEPT !.usedAt = now, !.usedBy = t]
                                            ELSE redeemList[i]]_vars

\* a code no record holds was refused as invalid after another code was redeemed
C16_Witness ==
  /\ last.op = "redeem"
  /\ last.baseId # NoTenant
  /\ ~last.ok
  /\ last.message = "invalid code"
  /\ paidUntilMap # << >>
  /\ \E i \in 1..Len(redeemList) : redeemList[i].usedBy # NoTenant

\* C17: a getStatus call changes no trial counter, no paidUntil, not the admin set
\* and no redeem code, and persists nothing.
C17_GetStatusReadOnly ==
  [][last'.op = "getStatus"
       => /\ usage' = usage
          /\ paidUntilMap' = paidUntilMap
          /\ adminSet' = adminSet
          /\ redeemList' = redeemList
          /\ last'.persists = 0
          /\ UNCHANGED storeVars]_vars

\* getStatus has reported trial uses left to a tenant that used one, and the
\* counter is where consume left it
C17_Witness ==
  /\ last.op = "getStatus"
  /\ last.status.baseId # NoTenant
  /\ last.status.message = "trial left"
  /\ last.status.freeRemaining = 1
  /\ usage[last.status.baseId] = 1

\* C18: setAdmin returns true for a valid tenant and false for none; enabling adds
\* the tenant and leaves the set as it is when the tenant is in it already,
\* disabling removes it and leaves the set as it is when it is not in it; a tenant
\* that is not in the set is not reported as admin.
C18_SetAdminIdempotent ==
  [][/\ last'.op = "setAdmin"
          => LET t == last'.baseId IN
             IF t = NoTenant THEN last'.result = FALSE /\ adminSet' = adminSet
             ELSE /\ last'.result = TRUE
                  /\ t \in adminSet' <=> last'.enabled
                  /\ adminSet' \ {t} = adminSet \ {t}
                  /\ (t \in adminSet <=> last'.enabled) => adminSet' = adminSet
     /\ (last'.op \in {"getStatus", "consume"} /\ last'.status.baseId \notin adminSet)
          => last'.status.message # "admin"]_vars

\* setAdmin(t, false) has left t out of the set while another tenant is still admin
C18_Witness ==
  /\ last.op = "setAdmin"
  /\ last.baseId # NoTenant
  /\ ~last.enabled
  /\ last.result
  /\ last.baseId \notin adminSet
  /\ \E b \in Tenants : b \in adminSet

\* C19: activatePlan returns null and leaves the paid-until map as it is when the
\* tenant is missing or the duration is not positive (zero or negative).
C19_InvalidDurationRejected ==
  [][(/\ last'.op = "activatePlan"
      /\ (last'.baseId = NoTenant \/ last'.durationMs <= 0))
       => (last'.result = Null /\ paidUntilMap' = paidUntilMap)]_vars

\* C20: addRedeemCode returns false and appends nothing when the code is missing
\* or the duration is not positive; otherwise it appends one unused record that
\* holds the hash of the code.
C20_AddRedeemCodeOutcomes ==
  [][last'.op = "addRedeemCode"
       => IF last'.code = "" \/ last'.durationMs <= 0
          THEN last'.result = FALSE /\ redeemList' = redeemList
          ELSE /\ last'.result = TRUE
               /\ redeemList' = Append(redeemList,
                                       [codeHash |-> hashCode(last'.code),
                                        durationMs |-> last'.durationMs,
                                        usedAt |-> 0, usedBy |-> NoTenant])
               /\ hashCode(last'.code) # last'.code]_vars

\* the snapshot most recently handed to the writer is the serialized cache
LastQueuedIsCache ==
  /\ pendingWrite' # <<>>
  /\ pendingWrite'[Len(pendingWrite')].payload = jsonStringify(cache')

\* C21 (as amended): a call that changes PaidUntil, AdminSet, the redeem codes,
\* a pricing profile, a usage total or a daily usage makes at least one persist
\* call, and the last one carries the ledger's state after the call; the trial
\* counter, which is not part of the snapshot, is left out.
C21_PersistedMutationsPersist ==
  [][/\ <<paidUntilMap, adminSet, redeemList>>' # <<paidUntilMap, adminSet, redeemList>>
          => /\ persistCalls' > persistCalls
             /\ cache'.paidUntilByBaseId = paidUntilMap'
             /\ cache'.adminBaseIdList = adminSet'
             /\ cache'.redeemCodes = redeemList'
             /\ LastQueuedIsCache
     /\ <<pricingMap, usageMap, dailyUsageMap>>' # <<pricingMap, usageMap, dailyUsageMap>>
          => /\ persistCalls' > persistCalls
             /\ cache'.pricingByBaseId = pricingMap'
             /\ cache'.usageByBaseId = usageMap'
             /\ cache'.dailyUsageByBaseId = dailyUsageMap'
             /\ LastQueuedIsCache]_vars

\* C21 (as stated): every call that changes ledger state, the trial increment of
\* consume included, makes at least one persist call.
C21_EveryMutationPersists ==
  [][<<usage, paidUntilMap, adminSet, redeemList, pricingMap, usageMap, dailyUsageMap>>'
       # <<usage, paidUntilMap, adminSet, redeemList, pricingMap, usageMap, dailyUsageMap>>
       => persistCalls' > persistCalls]_vars

\* a redeem has credited the tenant and both of its snapshots are queued, after a
\* billing call was persisted too
C21_Witness ==
  /\ last.op = "redeem"
  /\ last.ok
  /\ persistCalls = 3
  /\ cache.redeemCodes = redeemList
  /\ cache.paidUntilByBaseId = paidUntilMap
  /\ DOMAIN cache.usageByBaseId # {}

\* the boundaries and prices of a tier list, whatever the field names it uses
TierPairs(list) == { <<list[k].upToMinutes, list[k].unitPrice>> : k \in 1..Len(list) }

SameTierList(a, b) ==
  /\ Len(a) = Len(b)
  /\ \A k \in 1..Len(a) : /\ a[k].upToMinutes = b[k].upToMinutes
                          /\ a[k].unitPrice = b[k].unitPrice

\* C22: for a tenant with no stored override getPricing returns the default's
\* flat unit price, label and tier list; for a tenant whose override was just
\* stored it returns the override's unit price, label and tiers where the
\* override gives them and the default's where it does not.
C22_GetPricingDefaultAndOverride ==
  (last.op = "getPricing") =>
    /\ last.baseId \notin DOMAIN pricingMap
         => /\ last.result.modelUnitPrice = defaultPricing.modelUnitPrice
            /\ last.result.modelUnitLabel = defaultPricing.modelUnitLabel
            /\ SameTierList(last.result.tieredPrices, defaultPricing.tieredPrices)
    /\ last.override # Null
         => LET o == last.override[1] IN
            /\ last.result.modelUnitPrice = IF isFinite(o.modelUnitPrice) THEN o.modelUnitPrice
                                            ELSE defaultPricing.modelUnitPrice
            /\ last.result.modelUnitLabel = IF o.modelUnitLabel # "" THEN o.modelUnitLabel
                                            ELSE defaultPricing.modelUnitLabel
            /\ TierPairs(last.result.tieredPrices)
                 = TierPairs(IF o.tieredPrices # Null THEN o.tieredPrices[1]
                             ELSE defaultPricing.tieredPrices)

\* getPricing has answered for a tenant whose override gives tiers but no price or
\* label, under a default that has tiers of its own, and for one without override
C22_Witness ==
  /\ last.op = "getPricing"
  /\ last.override # Null
  /\ last.override[1].tieredPrices # Null
  /\ ~isFinite(last.override[1].modelUnitPrice)
  /\ defaultPricing = DefaultTiered
  /\ last.result.modelUnitPrice = DefaultTiered.modelUnitPrice
  /\ Len(last.result.tieredPrices) = 2
  /\ \E t \in Tenants : t \notin DOMAIN pricingMap

\* C23: a code that the snapshot read at a restart records as used, a built-in
\* code included, is refused as already used when it is redeemed after the
\* restart.
C23_SingleUseAcrossRestart ==
  (last.op = "restart") =>
    \A t \in Tenants, c \in Codes :
      (hashCode(c) \in last.usedCodes)
        => (~redeem(t, c).ok /\ redeem(t, c).message = "already used")

\* C24: when the process restarts on a file that holds the latest snapshot,
\* getPricing gives every tenant the profile it gave before the restart, a
\* terminal tier with an infinite boundary included.
C24_PricingSurvivesRestart ==
  (last.op = "restart" /\ last.written) =>
    \A t \in Tenants : getPricing(t) = last.pricingBefore[t]

\* C25: a task is submitted only for a tenant the subscription ledger admits:
\* one whose status is allowed, or one for which the call just before consumed a
\* trial use.
C25_SubmitOnlyWhenAdmitted ==
  [][(last'.op = "submitTask")
       => \/ getStatus(last'.baseId).allowed
          \/ /\ last.op = "consume"
             /\ last.status.baseId = last'.baseId
             /\ last.status.allowed]_vars

\* C26: a "paid" notification for an order that is already paid leaves the
\* tenant's paid-until as it is, and no notification takes an order out of the
\* paid status.
C26_PaidOrderActivatesOnce ==
  [][(/\ last'.op = "notify"
      /\ last'.orderId \in 1..Len(billingOrders)
      /\ billingOrders[last'.orderId].status = "paid")
       => /\ paidUntilMap' = paidUntilMap
          /\ billingOrders'[last'.orderId].status = "paid"]_vars

\* C27: a task is billed at most once however many query handlers observe its
\* completion: a handler that resumes while the task is pending bills it and
\* removes the entry, and one that resumes after that, though the entry was
\* there when its request came in, bills nothing.
C27_ConcurrentQueriesBillOnce ==
  /\ [](\A k \in 1..MaxTasks : recorded[k] <= 1)
  /\ [][(last'.op = "queryTask" /\ last'.status = "done")
          => IF last'.taskId \in DOMAIN billingTasks
             THEN /\ last'.billed
                  /\ last'.taskId \notin DOMAIN billingTasks'
                  /\ recorded'[last'.taskId] = 1
             ELSE /\ ~last'.billed
                  /\ last'.result = Null
                  /\ usageMap' = usageMap
                  /\ dailyUsageMap' = dailyUsageMap
                  /\ recorded' = recorded]_vars

\* a handler whose request came in while the task was pending has resumed on the
\* completed task after another handler billed it, and has billed nothing
C27_Witness ==
  /\ last.op = "queryTask"
  /\ last.status = "done"
  /\ last.cached # Null
  /\ ~last.billed
  /\ recorded[last.taskId] = 1
  /\ usageMap # << >>

\* C28: no snapshot that a successful redeem hands to the writer holds the
\* tenant's paid-until as extended by the code while it records the code as unused.
C28_SnapshotsConsistentOnRedeem ==
  [][(last'.op = "redeem" /\ last'.ok)
       => \A k \in (Len(pendingWrite) + 1)..Len(pendingWrite') :
            LET snapshot == pendingWrite'[k].payload IN
            (/\ last'.baseId \in DOMAIN snapshot.paidUntilByBaseId
             /\ snapshot.paidUntilByBaseId[last'.baseId] = last'.paidUntil[1])
              => hashCode(last'.code) \in usedCodes(snapshot.redeemCodes)]_vars

\* the writes handed to the writer and not yet settled
UnsettledWrites == { pendingWrite[k] : k \in 1..Len(pendingWrite) } \cup inFlight

\* C29: the write of the last persist call carries the serialization of the whole
\* merged cache, mutations of earlier calls whose writes failed included; a write
\* that succeeds leaves its payload in the file, so when the last one succeeds the
\* file holds the serialized cache; and every queued write is settled in the end.
C29_FileCatchesUp ==
  /\ [](\A w \in UnsettledWrites : w.n = persistCalls => w.payload = jsonStringify(cache))
  /\ [][\A w \in inFlight :
          (inFlight' = inFlight \ {w} /\ failed' = failed)
            => /\ file' = Some(w.payload)
               /\ w.n = persistCalls => (file' = Some(jsonStringify(cache)) /\ pendingWrite = <<>>)]_vars
  /\ (UnsettledWrites # {}) ~> (UnsettledWrites = {})

\* a write failed, a later one succeeded, and the file holds the serialized cache
\* with what both ledgers persisted
C29_Witness ==
  /\ failed >= 1
  /\ UnsettledWrites = {}
  /\ started = persistCalls
  /\ file = Some(jsonStringify(cache))
  /\ cache.paidUntilByBaseId # << >>
  /\ cache.pricingByBaseId # << >>

\* a finite number above zero
Positive(x) == isFinite(x) /\ x > 0

\* the least whole number of minutes that covers a duration, and at least one
WholeMinutes(durationMs) ==
  CHOOSE n \in 1..(durationMs \div MsPerMinute + 1) :
    /\ n * MsPerMinute >= durationMs
    /\ n = 1 \/ (n - 1) * MsPerMinute < durationMs

\* the date keys of the clock
UsageDates == 0..(MaxNow \div DayLength)

\* the minutes a daily ledger holds for a tenant on a day, and the count of a usage ledger
DailyMinutes(map, t, d) ==
  IF t \in DOMAIN map /\ d \in DOMAIN map[t] THEN map[t][d].minutes ELSE 0

CountOf(map, t) == IF t \in DOMAIN map THEN map[t].count ELSE 0

\* C30: recordUsage bills the minutes when they are positive, else the duration
\* in whole minutes rounded up (at least 1) when it is positive, else the units
\* when they are positive, else 1; the quantity is above zero, it is added to the
\* day of the call, and the minutes of no day of any tenant decrease.
C30_QuantityPrecedence ==
  [][(last'.op = "recordUsage" /\ last'.baseId # NoTenant)
       => LET q == last'.quantity
              billed == DailyMinutes(dailyUsageMap', last'.baseId, last'.dateKey)
                          - DailyMinutes(dailyUsageMap, last'.baseId, last'.dateKey)
          IN  /\ billed = IF Positive(q.minutes) THEN q.minutes
                          ELSE IF Positive(q.durationMs) THEN WholeMinutes(q.durationMs)
                          ELSE IF Positive(q.units) THEN q.units
                          ELSE 1
              /\ billed > 0
              /\ CountOf(usageMap', last'.baseId) = CountOf(usageMap, last'.baseId) + billed
              /\ \A t \in Tenants, d \in UsageDates :
                   DailyMinutes(dailyUsageMap', t, d) >= DailyMinutes(dailyUsageMap, t, d)]_vars

\* a call whose minutes are zero was billed its duration, on a day that held minutes
C30_Witness ==
  /\ last.op = "recordUsage"
  /\ last.baseId # NoTenant
  /\ last.quantity.minutes = 0
  /\ last.quantity.units = 3
  /\ last.result.dailyMinutes = 3

\* C31: chargeOnce of a pending task bills the duration registered with the task
\* when that is positive and the observed duration otherwise (one minute when
\* neither is), and it bills the tenant stored with the task, a trimmed id, and
\* no other tenant.
C31_RegisteredDurationFirst ==
  [][(/\ last'.op = "chargeOnce"
      /\ last'.taskId \in DOMAIN billingTasks
      /\ ~billingTasks[last'.taskId].charged)
       => LET cached == billingTasks[last'.taskId]
              billedMs == IF Positive(cached.durationMs) THEN cached.durationMs
                          ELSE last'.durationMs
              minutes == IF Positive(billedMs) THEN WholeMinutes(billedMs) ELSE 1
          IN  /\ cached.baseId \in Tenants
              /\ CountOf(usageMap', cached.baseId) = CountOf(usageMap, cached.baseId) + minutes
              /\ \A t \in Tenants \ {cached.baseId} :
                   CountOf(usageMap', t) = CountOf(usageMap, t)
              /\ DOMAIN usageMap' \subseteq Tenants]_vars

\* a task registered by " b " with a duration of two minutes was charged while a
\* longer duration was observed: tenant "b" holds the two minutes
C31_Witness ==
  /\ last.op = "chargeOnce"
  /\ last.result # Null
  /\ last.durationMs = 120001
  /\ CountOf(usageMap, <<"b">>) = 2
  /\ CountOf(usageMap, <<"a">>) = 0

\* the cost a daily ledger holds for a tenant on a day
DailyCost(map, t, d) ==
  IF t \in DOMAIN map /\ d \in DOMAIN map[t] THEN map[t][d].cost ELSE 0

\* C32: the cost recordUsage adds for a date is the tier split of the billed minutes
\* at the minutes that date already held, whatever other dates hold, so the first
\* minutes of a date are billed from the lowest tier; the buckets of every other
\* date and tenant stay as they were.
C32_TiersResetPerDay ==
  [][(last'.op = "recordUsage" /\ last'.baseId # NoTenant)
       => LET t == last'.baseId
              d == last'.dateKey
              pricing == getPricing(t)
              prevMinutes == DailyMinutes(dailyUsageMap, t, d)
              billed == CountOf(usageMap', t) - CountOf(usageMap, t)
          IN  /\ DailyMinutes(dailyUsageMap', t, d) = prevMinutes + billed
              /\ DailyCost(dailyUsageMap', t, d)
                   = DailyCost(dailyUsageMap, t, d)
                       + SplitCost(pricing.tieredPrices, prevMinutes, billed, pricing.modelUnitPrice)
              /\ \A t2 \in Tenants, d2 \in UsageDates :
                   (t2 # t \/ d2 # d)
                     => /\ DailyMinutes(dailyUsageMap', t2, d2) = DailyMinutes(dailyUsageMap, t2, d2)
                        /\ DailyCost(dailyUsageMap', t2, d2) = DailyCost(dailyUsageMap, t2, d2)
                        /\ (t2 \in DOMAIN dailyUsageMap' /\ d2 \in DOMAIN dailyUsageMap'[t2])
                             <=> (t2 \in DOMAIN dailyUsageMap /\ d2 \in DOMAIN dailyUsageMap[t2])]_vars

\* a tenant that filled the first tier on day 0 was billed its first minute of
\* day 1 at the price of the first tier
C32_Witness ==
  /\ last.op = "recordUsage"
  /\ last.baseId # NoTenant
  /\ last.dateKey = 1
  /\ DailyMinutes(dailyUsageMap, last.baseId, 0) = 2
  /\ last.result.dailyMinutes = 1
  /\ last.result.dailyCost = 20000

\* the tiers of a schedule whose boundary is at least a total
TiersFrom(tiers, total) == { i \in 1..Len(tiers) : tiers[i].upToMinutes >= total }

\* C33: resolveCurrentTierUnitPrice returns the price of the first tier whose
\* boundary is at least the total, else the price of the terminal tier, and the
\* fallback price only when no tiers are configured.
C33_FirstTierElseTerminal ==
  last.op = "resolveCurrentTierUnitPrice"
    => LET tiers == last.tieredPrices
           hits == TiersFrom(tiers, last.totalMinutes)
       IN  last.unitPrice
             = IF hits # {} THEN tiers[CHOOSE i \in hits : \A j \in hits : i <= j].unitPrice
               ELSE IF Len(tiers) > 0 THEN tiers[Len(tiers)].unitPrice
               ELSE last.fallbackUnitPrice

\* C34: the unit price recordUsage reports with a daily total is the price the
\* tier-crossing cost charges for the next minute added on that day.
C34_QuotedPriceIsNextMinute ==
  (last.op = "recordUsage" /\ last.baseId # NoTenant)
    => LET pricing == getPricing(last.baseId) IN
       last.result.unitPrice
         = calculateTieredCost(pricing.tieredPrices, last.result.dailyMinutes, 1,
                               pricing.modelUnitPrice)

\* the paid-until a map holds for a tenant, 0 when it holds none
PaidUntilOf(map, t) == IF t \in DOMAIN map THEN map[t] ELSE 0

\* C35: a redeem that returns ok has moved the tenant's paid-until strictly forward
\* and returns that new value, which is not null, whatever record the code has.
C35_RedeemGrantsTime ==
  [][(last'.op = "redeem" /\ last'.ok)
       => /\ last'.paidUntil # Null
          /\ last'.paidUntil = Some(PaidUntilOf(paidUntilMap', last'.baseId))
          /\ PaidUntilOf(paidUntilMap', last'.baseId) > PaidUntilOf(paidUntilMap, last'.baseId)]_vars

\* the cost a usage ledger holds for a tenant
CostOf(map, t) == IF t \in DOMAIN map THEN map[t].cost ELSE 0

\* C36: across a recordUsage call no tenant's total cost and no day's cost
\* decreases, under the default pricing and under every profile setPricing took.
C36_CostNeverDecreases ==
  [][(last'.op = "recordUsage")
       => \A t \in Tenants :
            /\ CostOf(usageMap', t) >= CostOf(usageMap, t)
            /\ \A d \in UsageDates :
                 DailyCost(dailyUsageMap', t, d) >= DailyCost(dailyUsageMap, t, d)]_vars

IsolatedOps ==
  { "consume", "activatePlan", "setAdmin", "redeem", "setPricing", "recordUsage", "chargeOnce" }

\* what a map holds under a key, if anything
EntryOf(map, key) == IF key \in DOMAIN map THEN <<map[key]>> ELSE << >>

\* C37: a ledger operation called for one tenant (a chargeOnce: for the tenant of
\* the task) leaves the trial count, the paid-until, the admin membership, the
\* pricing, the usage total and the daily usage of every other tenant as they were.
C37_TenantIsolation ==
  [][last'.op \in IsolatedOps
       => LET A == IF last'.op = "chargeOnce"
                   THEN IF last'.taskId \in DOMAIN billingTasks
                        THEN billingTasks[last'.taskId].baseId ELSE NoTenant
                   ELSE TenantOfCall(last')
          IN  \A B \in Tenants \ {A} :
                /\ usage'[B] = usage[B]
                /\ EntryOf(paidUntilMap', B) = EntryOf(paidUntilMap, B)
                /\ (B \in adminSet') <=> (B \in adminSet)
                /\ EntryOf(pricingMap', B) = EntryOf(pricingMap, B)
                /\ EntryOf(usageMap', B) = EntryOf(usageMap, B)
                /\ EntryOf(dailyUsageMap', B) = EntryOf(dailyUsageMap, B)]_vars

\* tenant "b" holds a trial use, a paid period, admin rights, a price override and
\* usage, and the last call, a recordUsage for tenant "a", has billed "a"
C37_Witness ==
  /\ last.op = "recordUsage"
  /\ last.baseId = <<"a">>
  /\ usage[<<"b">>] = 1
  /\ usage[<<"a">>] = 2
  /\ paidUntilMap = (<<"a">> :> 3 @@ <<"b">> :> 2)
  /\ adminSet = {SeedAdminBaseId, <<"b">>}
  /\ pricingMap[<<"b">>].modelUnitPrice = 30000
  /\ <<"a">> \in DOMAIN pricingMap
  /\ usageMap[<<"b">>].count = 1
  /\ usageMap[<<"a">>].count = 2

\* C38: a consume for a tenant admitted by bypass, as admin or by a paid period is
\* allowed and leaves every trial counter as it was, and no call but a consume on
\* the trial branch changes a counter; so a tenant whose paid period has expired
\* finds the free uses it had left and is granted the next one.
C38_PaidConsumeKeepsTrial ==
  /\ [][(last'.op = "consume" /\ last'.status.baseId # NoTenant
          /\ ~OnTrial(last'.status.baseId))
         => (usage' = usage /\ last'.status.allowed /\ last'.status.isPaid)]_vars
  /\ [][usage' # usage
         => /\ last'.op = "consume"
            /\ last'.status.baseId # NoTenant
            /\ OnTrial(last'.status.baseId)]_vars
  /\ [][(last'.op = "consume" /\ last'.status.baseId # NoTenant
          /\ OnTrial(last'.status.baseId) /\ usage[last'.status.baseId] < TrialLimit)
         => /\ last'.status.allowed
            /\ last'.status.freeRemaining = TrialLimit - usage[last'.status.baseId] - 1]_vars

\* a tenant that had used one free use was admitted by its paid period, and its
\* counter still holds the one use
C38_Witness ==
  /\ last.op = "consume"
  /\ last.status.baseId = <<"a">>
  /\ last.status.isPaid
  /\ ~allowBypass
  /\ <<"a">> \notin adminSet
  /\ <<"a">> \in DOMAIN paidUntilMap
  /\ usage[<<"a">>] = 1

\* C39: usage is recorded only by a query that observes the completed status; a
\* query that observes a running or failed status bills nothing and leaves the
\* pending entries as they are; a submission without a valid tenant registers
\* nothing, and only a registered task is ever billed.
C39_BilledOnlyOnCompletion ==
  /\ [][(usageMap' # usageMap \/ dailyUsageMap' # dailyUsageMap \/ recorded' # recorded)
          => (last'.op = "queryTask" /\ last'.status = "done")]_vars
  /\ [][(last'.op = "queryTask" /\ last'.status # "done")
          => /\ ~last'.billed
             /\ billingTasks' = billingTasks
             /\ usageMap' = usageMap
             /\ dailyUsageMap' = dailyUsageMap]_vars
  /\ [][(last'.op = "submitTask" /\ last'.baseId = NoTenant)
          => billingTasks' = billingTasks]_vars
  /\ [][\A k \in 0..MaxTasks : recorded'[k] > recorded[k] => k \in DOMAIN billingTasks]_vars
  /\ [](\A k \in DOMAIN billingTasks : billingTasks[k].baseId \in Tenants)

\* a task was submitted without a tenant and another is pending: a query of the
\* pending one has observed "running" and billed nothing
C39_Witness ==
  /\ last.op = "queryTask"
  /\ last.status = "running"
  /\ last.taskId \in DOMAIN billingTasks
  /\ nextTaskId = 2
  /\ Cardinality(DOMAIN billingTasks) = 1
  /\ usageMap = << >>

====
